---- MODULE Spec2Model ----
(***************************************************************************)
(* Pressure-insole acquisition and transport pipeline of kinetra:          *)
(*   firmware (src/unnamed/part_003): scan, calibration, quantization,     *)
(*     frame encoding, chunked transmission;                               *)
(*   host (src/unnamed/part_009): MagicFrameAssembler, decodeFrameU16,     *)
(*     rescaleMatrix.                                                      *)
(* Bytes are integers 0..255, byte sequences are TLA+ sequences (1-based;  *)
(* the operators below take and return the source's 0-based offsets).      *)
(***************************************************************************)
EXTENDS Integers, Sequences, FiniteSets, TLC

VARIABLES
  \* host reassembler (MagicFrameAssembler) and what was fed to it
  rxBuffer,     \* this.buffer
  emitted,      \* every frame returned by addChunk so far, in order
  stream,       \* every byte passed to addChunk so far, in order
  pending,      \* bytes of a planned stream not yet delivered
  garbage,      \* the planned stream's garbage prefix
  frames,       \* the planned stream's well-formed frames
  \* the link between sendChunked and the reassembler
  txFrame,      \* the frame handed to sendChunked last
  air,          \* its fragments written and not yet delivered, in order
  faults,       \* fragments dropped or corrupted so far
  frameOK,      \* no fragment of txFrame was dropped or corrupted
  cleanSince,   \* no fault yet, or since the last fault an intact frame
                \* with no magic pair in its payload was delivered completely
  lastDue,      \* the last completed frame was intact and cleanSince held before it
  lastOK,       \* the last completed frame was intact and addChunk returned
                \* exactly that frame on its last fragment
  \* firmware (globals and function statics of the sketch)
  nodeResistance, restingSum, restingCount, restingState, nodeMultiplier,
  frameCount, restingFrozen,
  frame_id,     \* static uint16_t frame_id of transmitBlePacked
  payload,      \* uint8_t payload[kPayloadBytes]
  written,      \* the bleuart.write calls of the latest loop() call, in order
  \* record of the firmware's run
  rawScan,      \* what the electrical scan of the latest cycle measured
  cycles,       \* loop() calls so far
  framesSent,   \* frames encoded and written so far
  alwaysReady,  \* the transport was ready on every cycle so far
  frozenAtStart,\* restingFrozen when the latest cycle began
  fedVals,      \* per node: the set of raw values scanned on the warm-up cycles
  prevId, lastId, \* frame_id carried by the last two frames written (-1: none)
  transport,    \* what the BLE stack answered on the latest cycle
  \* one call of a function of the program on its own
  callArgs,     \* the arguments
  callResult,   \* what it returned (once called)
  called

rxVars == <<rxBuffer, emitted, stream, pending, garbage, frames>>

linkVars == <<txFrame, air, faults, frameOK, cleanSince, lastDue, lastOK>>

fwVars == <<nodeResistance, restingSum, restingCount, restingState, nodeMultiplier,
            frameCount, restingFrozen, frame_id, payload, written,
            rawScan, cycles, framesSent, alwaysReady, frozenAtStart, fedVals,
            prevId, lastId, transport>>

callVars == <<callArgs, callResult, called>>

vars == <<rxBuffer, emitted, stream, pending, garbage, frames,
          txFrame, air, faults, frameOK, cleanSince, lastDue, lastOK,
          nodeResistance, restingSum, restingCount, restingState, nodeMultiplier,
          frameCount, restingFrozen, frame_id, payload, written,
          rawScan, cycles, framesSent, alwaysReady, frozenAtStart, fedVals,
          prevId, lastId, transport, callArgs, callResult, called>>

----------------------------------------------------------------------------
(* Bounds of the model *)

\* samples per frame of the reassembler specifications (rows * cols)
RxSamples == 1
\* longest byte stream fed in SpecRx
MaxStream == 9
\* largest fragment (link MTU) of the reassembler specifications
RxMtu == 2
\* longest garbage prefix and largest number of frames of SpecResync
MaxGarbage == 2
MaxFrames == 2
\* chunk size of the link specification and its number of faults
LinkChunk == 2
MaxFaults == 2
\* the firmware's grid and warm-up window, scaled down, and the number of
\* cycles run after the warm-up
numRows == 2
numCols == 3
kRestingHistorySize == 3
MaxFwFrames == 2
\* the longest input handed to the decoder
MaxDecodeLen == 8

----------------------------------------------------------------------------
(* Protocol constants *)

kMagic == 48879
kHeaderBytes == 4
kMaxChunkSize == 244
kTxChunkSize == 20
\* the grid of the firmware as built, and the grid the host is configured for
FW_numRows == 12
FW_numCols == 8
BLE_ROWS == 13
BLE_COLS == 9
BLE_MIN_V == -1
BLE_MAX_V == 3700

magicLo == kMagic % 256
magicHi == (kMagic \div 256) % 256

\* expected frame length handed to the MagicFrameAssembler constructor
frameLen == kHeaderBytes + RxSamples * 2

\* byte values fed to the reassembler: the two magic bytes and another one
ByteVals == {magicLo, magicHi, 0}

Min(S) == CHOOSE x \in S : \A y \in S : x <= y

\* all sequences over S of length n
RECURSIVE SeqsOfLen(_, _)
SeqsOfLen(S, n) ==
  IF n = 0 THEN {<<>>}
  ELSE {Append(s, x) : s \in SeqsOfLen(S, n - 1), x \in S}

SeqsUpTo(S, n) == UNION {SeqsOfLen(S, k) : k \in 0..n}

\* JS Uint8Array.slice(from) and slice(from, to), 0-based, end exclusive
Slice(buf, from) == SubSeq(buf, from + 1, Len(buf))
Slice2(buf, from, to) == SubSeq(buf, from + 1, to)

----------------------------------------------------------------------------
(* The firmware's float: IEEE-754 binary32, round to nearest even.          *)
(* A value is <<m, e>> standing for m * 2^e, with m = 0 (and e = 0) or      *)
(* 2^23 <= |m| < 2^24.  Subnormals, infinities and NaN do not occur for the *)
(* magnitudes of this program (1e-3 .. 1e9).                                *)

Abs(x) == IF x < 0 THEN -x ELSE x
Sgn(x) == IF x < 0 THEN -1 ELSE IF x > 0 THEN 1 ELSE 0

FZero == <<0, 0>>

\* number of bits of M, 1 <= M < 2^31
BitLen(M) ==
  IF M < 8388608 THEN CHOOSE k \in 1..23 : M \div (2^(k - 1)) = 1
  ELSE IF M < 16777216 THEN 24
  ELSE IF M < 33554432 THEN 25
  ELSE IF M < 67108864 THEN 26
  ELSE IF M < 134217728 THEN 27
  ELSE IF M < 268435456 THEN 28
  ELSE IF M < 536870912 THEN 29
  ELSE IF M < 1073741824 THEN 30
  ELSE 31

\* the float nearest to (M + f) * 2^e, M >= 1, where 0 < f < 1 if st = 1
\* and f = 0 if st = 0; ties go to the even mantissa
RoundNorm(M, e, st) ==
  LET k == BitLen(M) - 24 IN
  IF k <= 0 THEN <<M * 2^(-k), e + k>>
  ELSE
    LET q == M \div 2^k
        r == M % 2^k
        half == 2^(k - 1)
        up == r > half \/ (r = half /\ (st = 1 \/ q % 2 = 1))
        q2 == IF up THEN q + 1 ELSE q
    IN IF q2 = 16777216 THEN <<8388608, e + k + 1>> ELSE <<q2, e + k>>

FNeg(a) == <<-a[1], a[2]>>

\* (float)n for an integer |n| < 2^24
FromInt(n) ==
  IF n = 0 THEN FZero
  ELSE LET r == RoundNorm(Abs(n), 0, 0) IN <<Sgn(n) * r[1], r[2]>>

\* a < b
FLt(a, b) ==
  LET sa == Sgn(a[1])
      sb == Sgn(b[1])
  IN IF sa # sb THEN sa < sb
     ELSE IF sa = 0 THEN FALSE
     ELSE IF sa > 0 THEN a[2] < b[2] \/ (a[2] = b[2] /\ a[1] < b[1])
     ELSE a[2] > b[2] \/ (a[2] = b[2] /\ a[1] < b[1])

FLe(a, b) == ~FLt(b, a)

\* a + b
FAdd(a, b) ==
  IF a[1] = 0 THEN b
  ELSE IF b[1] = 0 THEN a
  ELSE
    LET swap == a[2] < b[2]
        x == IF swap THEN b ELSE a
        y == IF swap THEN a ELSE b
        d == x[2] - y[2]
    IN IF d <= 6
       THEN LET S == x[1] * 2^d + y[1] IN
            IF S = 0 THEN FZero
            ELSE LET r == RoundNorm(Abs(S), y[2], 0) IN <<Sgn(S) * r[1], r[2]>>
       ELSE
         LET sh == d - 6
             X == Abs(x[1]) * 64
             yq == IF sh >= 25 THEN 0 ELSE Abs(y[1]) \div 2^sh
             st == IF sh >= 25 THEN 1 ELSE IF Abs(y[1]) % 2^sh # 0 THEN 1 ELSE 0
             same == Sgn(x[1]) = Sgn(y[1])
             S == IF same THEN X + yq ELSE X - yq - st
             r == RoundNorm(S, x[2] - 6, st)
         IN <<Sgn(x[1]) * r[1], r[2]>>

FSub(a, b) == FAdd(a, FNeg(b))

\* a * b
FMul(a, b) ==
  IF a[1] = 0 \/ b[1] = 0 THEN FZero
  ELSE
    LET ma == Abs(a[1])
        mb == Abs(b[1])
        a1 == ma \div 4096
        a0 == ma % 4096
        b1 == mb \div 4096
        b0 == mb % 4096
        mid == a1 * b0 + a0 * b1
        lowfull == (mid % 4096) * 4096 + a0 * b0
        hi == a1 * b1 + mid \div 4096 + lowfull \div 16777216
        lo == lowfull % 16777216
        M == hi * 64 + lo \div 262144
        st == IF lo % 262144 # 0 THEN 1 ELSE 0
        r == RoundNorm(M, a[2] + b[2] + 18, st)
    IN <<Sgn(a[1]) * Sgn(b[1]) * r[1], r[2]>>

\* a / b, b # 0
FDiv(a, b) ==
  IF a[1] = 0 THEN FZero
  ELSE
    LET ma == Abs(a[1])
        mb == Abs(b[1])
        q0 == ma \div mb
        r0 == ma % mb
        q1 == q0 * 128 + (r0 * 128) \div mb
        r1 == (r0 * 128) % mb
        q2 == q1 * 128 + (r1 * 128) \div mb
        r2 == (r1 * 128) % mb
        q3 == q2 * 128 + (r2 * 128) \div mb
        r3 == (r2 * 128) % mb
        q4 == q3 * 128 + (r3 * 128) \div mb
        r4 == (r3 * 128) % mb
        r == RoundNorm(q4, a[2] - b[2] - 28, IF r4 # 0 THEN 1 ELSE 0)
    IN <<Sgn(a[1]) * Sgn(b[1]) * r[1], r[2]>>

\* lroundf(x) for 0 <= x < 2^24: nearest integer, halves away from zero
LRound(x) ==
  IF x[1] = 0 THEN 0
  ELSE IF x[2] >= 0 THEN x[1] * 2^(x[2])
  ELSE IF -x[2] > 24 THEN 0
  ELSE LET s == -x[2]
           q == x[1] \div 2^s
           r == x[1] % 2^s
       IN IF r >= 2^(s - 1) THEN q + 1 ELSE q

----------------------------------------------------------------------------
(* Firmware: grid, constants, initial state *)

Nodes == (0..(numRows - 1)) \X (0..(numCols - 1))

OMMITTED_NODES ==
  << <<0, 0>>, <<0, 1>>, <<0, 7>>, <<1, 0>>,
     <<6, 7>>, <<7, 7>>,
     <<8, 6>>, <<8, 7>>, <<9, 6>>, <<9, 7>>, <<10, 6>>, <<10, 7>>, <<11, 6>>, <<11, 7>> >>

kOmittedNodeCount == Len(OMMITTED_NODES)

MAX_RESISTANCE == FromInt(6000)
MIN_RESISTANCE == FromInt(-1)

\* float literals of the sketch: 1.0f, -1.0f, 65535.0f
FOne == FromInt(1)
FMinusOne == FromInt(-1)
FU16Max == FromInt(65535)

\* resistances the electrical scan derives, used as readings below: 500 and
\* 1000, 365.85479736328125 (ADC code 1942) and 21120 (ADC code 63)
Raw500 == FromInt(500)
Raw1000 == FromInt(1000)
Raw365 == <<11988330, -15>>
Raw21120 == FromInt(21120)

kSampleCount == numRows * numCols
kPayloadBytes == kHeaderBytes + kSampleCount * 2

isOmittedNodeNever(r, c) == FALSE

isOmittedNode(r, c) ==
  \E i \in 1..kOmittedNodeCount :
    OMMITTED_NODES[i][1] = r /\ OMMITTED_NODES[i][2] = c

\* globals after setup(): zero-initialised storage, calibration storage reset
FwSetup ==
  /\ nodeResistance = [n \in Nodes |-> FZero]
  /\ restingSum = [n \in Nodes |-> FZero]
  /\ restingCount = [n \in Nodes |-> 0]
  /\ restingState = [n \in Nodes |-> MAX_RESISTANCE]
  /\ nodeMultiplier = [n \in Nodes |-> FOne]
  /\ frameCount = 0
  /\ restingFrozen = FALSE
  /\ frame_id = 0
  /\ payload = [i \in 1..kPayloadBytes |-> 0]
  /\ written = <<>>
  /\ rawScan = [n \in Nodes |-> FZero]
  /\ cycles = 0
  /\ framesSent = 0
  /\ alwaysReady = TRUE
  /\ frozenAtStart = FALSE
  /\ fedVals = [n \in Nodes |-> {}]
  /\ prevId = -1
  /\ lastId = -1
  /\ transport = [connected |-> FALSE, notifyEnabled |-> FALSE]

\* no function is called on its own in this specification
CallIdle ==
  /\ callArgs = <<>>
  /\ callResult = <<>>
  /\ called = FALSE

\* the reassembler is not part of this specification
RxIdle ==
  /\ rxBuffer = <<>>
  /\ emitted = <<>>
  /\ stream = <<>>
  /\ pending = <<>>
  /\ garbage = <<>>
  /\ frames = <<>>

----------------------------------------------------------------------------
(* MagicFrameAssembler.addChunk *)

FindMagicLast(buf) ==
  LET hits == {i \in 0..(Len(buf) - 2) :
                 buf[i + 1] = magicLo /\ buf[i + 2] = magicHi}
  IN IF hits = {} THEN -1 ELSE CHOOSE i \in hits : \A j \in hits : j <= i

\* the for loop: first 0-based offset of the magic pair, -1 when absent
FindMagic(buf) ==
  LET hits == {i \in 0..(Len(buf) - 2) :
                 buf[i + 1] = magicLo /\ buf[i + 2] = magicHi}
  IN IF hits = {} THEN -1 ELSE Min(hits)

KeepTailNone(buf) == <<>>

\* no magic found: keep the last byte in case magic splits across chunks
KeepTail(buf) ==
  IF Len(buf) > 1 THEN Slice(buf, Len(buf) - 1) ELSE buf

DropJunkNever(buf, start) == buf

\* drop junk before magic
DropJunk(buf, start) ==
  IF start > 0 THEN Slice(buf, start) ELSE buf

\* the while (true) loop over the combined buffer
RECURSIVE Drain(_, _)
Drain(buf, out) ==
  LET start == FindMagic(buf) IN
  IF start = -1 THEN [buffer |-> KeepTail(buf), out |-> out]
  ELSE
    LET b2 == DropJunk(buf, start) IN
    IF Len(b2) < frameLen THEN [buffer |-> b2, out |-> out]
    ELSE Drain(Slice(b2, frameLen), Append(out, Slice2(b2, 0, frameLen)))

\* addChunk(data) on an assembler whose buffer is `buffer`
MagicAddChunk(buffer, chunk) ==
  IF Len(chunk) = 0 THEN [buffer |-> buffer, out |-> <<>>]
  ELSE Drain(buffer \o chunk, <<>>)

----------------------------------------------------------------------------
(* SpecRx: a fresh assembler fed arbitrary fragments *)

\* the link is not part of this specification
LinkIdle ==
  /\ txFrame = <<>>
  /\ air = <<>>
  /\ faults = 0
  /\ frameOK = TRUE
  /\ cleanSince = TRUE
  /\ lastDue = FALSE
  /\ lastOK = TRUE

RxInit ==
  /\ rxBuffer = <<>>
  /\ emitted = <<>>
  /\ stream = <<>>
  /\ pending = <<>>
  /\ garbage = <<>>
  /\ frames = <<>>
  /\ LinkIdle
  /\ FwSetup
  /\ CallIdle

\* one characteristicvaluechanged notification carrying `chunk`
RxFeed(chunk) ==
  /\ Len(stream) + Len(chunk) <= MaxStream
  /\ LET r == MagicAddChunk(rxBuffer, chunk) IN
       /\ rxBuffer' = r.buffer
       /\ emitted' = emitted \o r.out
  /\ stream' = stream \o chunk
  /\ UNCHANGED <<pending, garbage, frames>>
  /\ UNCHANGED linkVars
  /\ UNCHANGED fwVars
  /\ UNCHANGED callVars

RxNext == \E n \in 1..RxMtu : \E chunk \in SeqsOfLen(ByteVals, n) : RxFeed(chunk)

SpecRx == RxInit /\ [][RxNext]_vars

----------------------------------------------------------------------------
(* decodeFrameU16: the two validations *)

DecodeErrorNoMagicCheck(bytes, rows, cols) ==
  IF Len(bytes) # 4 + rows * cols * 2 THEN "length" ELSE "none"

\* "length", "magic" for the two throw statements, "none" when it returns
DecodeError(bytes, rows, cols) ==
  LET expected == 4 + rows * cols * 2 IN
  IF Len(bytes) # expected THEN "length"
  ELSE IF bytes[1] + bytes[2] * 256 # 48879 THEN "magic"
  ELSE "none"

----------------------------------------------------------------------------
(* SpecResync: a fresh assembler fed a garbage prefix followed by frames *)

payloadLen == frameLen - 2

\* frame bodies after the magic: all zero, or zero with the magic pair at
\* one offset (frame_id or a sample equal to 0xBEEF, or straddling the two)
MagicAt(k) ==
  [i \in 1..payloadLen |->
     IF i = k + 1 THEN magicLo ELSE IF i = k + 2 THEN magicHi ELSE 0]

Payloads == {[i \in 1..payloadLen |-> 0]} \cup {MagicAt(k) : k \in 0..(payloadLen - 2)}

FrameSet == {<<magicLo, magicHi>> \o p : p \in Payloads}

RECURSIVE Concat(_)
Concat(fs) == IF fs = <<>> THEN <<>> ELSE Head(fs) \o Concat(Tail(fs))

ResyncInit ==
  /\ garbage \in SeqsUpTo(ByteVals, MaxGarbage)
  /\ frames \in UNION {[1..n -> FrameSet] : n \in 0..MaxFrames}
  /\ pending = garbage \o Concat(frames)
  /\ rxBuffer = <<>>
  /\ emitted = <<>>
  /\ stream = <<>>
  /\ LinkIdle
  /\ FwSetup
  /\ CallIdle

\* the next n pending bytes arrive as one fragment
ResyncFeed(n) ==
  /\ n >= 1
  /\ n <= Len(pending)
  /\ LET chunk == SubSeq(pending, 1, n)
         r == MagicAddChunk(rxBuffer, chunk)
     IN /\ rxBuffer' = r.buffer
        /\ emitted' = emitted \o r.out
        /\ stream' = stream \o chunk
  /\ pending' = Slice(pending, n)
  /\ UNCHANGED <<garbage, frames>>
  /\ UNCHANGED linkVars
  /\ UNCHANGED fwVars
  /\ UNCHANGED callVars

\* fragments of 1 byte up to the MTU, or the rest as one contiguous block
ResyncNext == \E n \in (1..RxMtu) \cup {Len(pending)} : ResyncFeed(n)

SpecResync == ResyncInit /\ [][ResyncNext]_vars

----------------------------------------------------------------------------
(* sendChunked *)

\* the while loop from offset `off` with sequence number `seq`: the writes
\* made, in order.  With the header and payloadSpace = 0 the source's loop
\* makes no progress; the operator stops there.
RECURSIVE ChunkLoop(_, _, _, _, _, _)
ChunkLoop(data, len, chunkSize, addSequenceHeader, off, seq) ==
  IF ~(off < len) THEN <<>>
  ELSE IF addSequenceHeader /\ chunkSize < 2 THEN <<>>
  ELSE
    LET payloadSpace == IF addSequenceHeader THEN chunkSize - 2 ELSE chunkSize
        n == IF len - off > payloadSpace THEN payloadSpace ELSE len - off
        body == Slice2(data, off, off + n)
    IN IF addSequenceHeader
       THEN IF n = 0 THEN <<>>
            ELSE <<(<<seq % 256, seq \div 256>> \o body)>>
                 \o ChunkLoop(data, len, chunkSize, addSequenceHeader,
                              off + n, (seq + 1) % 65536)
       ELSE <<body>> \o ChunkLoop(data, len, chunkSize, addSequenceHeader, off + n, seq)

sendChunkedUncapped(data, len, chunkSize, addSequenceHeader) ==
  IF chunkSize <= 0 THEN <<>>
  ELSE ChunkLoop(data, len, chunkSize, addSequenceHeader, 0, 0)

\* sendChunked(data, len, chunkSize, addSequenceHeader): the bleuart.write calls
sendChunked(data, len, chunkSize, addSequenceHeader) ==
  IF chunkSize <= 0 THEN <<>>
  ELSE ChunkLoop(data, len,
                 IF chunkSize > kMaxChunkSize THEN kMaxChunkSize ELSE chunkSize,
                 addSequenceHeader, 0, 0)

----------------------------------------------------------------------------
(* SpecLink: frames sent in fragments over a link that may drop or corrupt *)
(* fragments, received by one MagicFrameAssembler                          *)

LinkInit ==
  /\ rxBuffer = <<>>
  /\ emitted = <<>>
  /\ stream = <<>>
  /\ pending = <<>>
  /\ garbage = <<>>
  /\ frames = <<>>
  /\ LinkIdle
  /\ FwSetup
  /\ CallIdle

\* the frame's payload (all bytes after the leading magic) holds no magic pair
CleanPayload(f) == FindMagic(Slice(f, 2)) = -1

\* transmitBlePacked: the next frame is written fragment by fragment
LinkSend(f) ==
  /\ air = <<>>
  /\ txFrame' = f
  /\ air' = sendChunked(f, Len(f), LinkChunk, FALSE)
  /\ frameOK' = TRUE
  /\ UNCHANGED <<faults, cleanSince, lastDue, lastOK>>
  /\ UNCHANGED rxVars
  /\ UNCHANGED fwVars
  /\ UNCHANGED callVars

\* what the arrival (or loss) of one fragment does to the ghost record;
\* `out` is what addChunk returned, `intact` whether this fragment arrived whole
LinkRecord(out, intact) ==
  LET ok == frameOK /\ intact
      done == Len(air) = 1
  IN /\ frameOK' = ok
     /\ cleanSince' = IF ~intact THEN FALSE
                      ELSE IF done /\ ok /\ CleanPayload(txFrame) THEN TRUE
                      ELSE cleanSince
     /\ lastDue' = IF done THEN ok /\ cleanSince ELSE lastDue
     /\ lastOK' = IF done THEN ok /\ out = <<txFrame>> ELSE lastOK

\* the notification handler receives the oldest fragment
LinkDeliver ==
  /\ air # <<>>
  /\ LET r == MagicAddChunk(rxBuffer, Head(air)) IN
       /\ rxBuffer' = r.buffer
       /\ LinkRecord(r.out, TRUE)
  /\ air' = Tail(air)
  /\ UNCHANGED <<txFrame, faults>>
  /\ UNCHANGED <<emitted, stream, pending, garbage, frames>>
  /\ UNCHANGED fwVars
  /\ UNCHANGED callVars

\* the oldest fragment is lost
LinkDrop ==
  /\ air # <<>>
  /\ faults < MaxFaults
  /\ faults' = faults + 1
  /\ LinkRecord(<<>>, FALSE)
  /\ air' = Tail(air)
  /\ UNCHANGED txFrame
  /\ UNCHANGED rxVars
  /\ UNCHANGED fwVars
  /\ UNCHANGED callVars

\* the oldest fragment arrives with other bytes
LinkCorrupt(bytes) ==
  /\ air # <<>>
  /\ faults < MaxFaults
  /\ Len(bytes) = Len(Head(air))
  /\ bytes # Head(air)
  /\ faults' = faults + 1
  /\ LET r == MagicAddChunk(rxBuffer, bytes) IN
       /\ rxBuffer' = r.buffer
       /\ LinkRecord(r.out, FALSE)
  /\ air' = Tail(air)
  /\ UNCHANGED txFrame
  /\ UNCHANGED <<emitted, stream, pending, garbage, frames>>
  /\ UNCHANGED fwVars
  /\ UNCHANGED callVars

LinkNext ==
  \/ \E f \in FrameSet : LinkSend(f)
  \/ LinkDeliver
  \/ LinkDrop
  \/ \E bytes \in SeqsOfLen(ByteVals, LinkChunk) \cup SeqsOfLen(ByteVals, 1) : LinkCorrupt(bytes)

\* loop() runs forever and the link keeps delivering
SpecLink ==
  /\ LinkInit
  /\ [][LinkNext]_vars
  /\ WF_vars(\E f \in FrameSet : LinkSend(f))
  /\ WF_vars(LinkDeliver)

----------------------------------------------------------------------------
(* Firmware: scan, calibration, quantization, encoding, transmission *)

\* scanMatrix, given what the electrical scan derived for every node (a
\* resistance, or MAX_RESISTANCE outside the guard band): the omitted nodes
\* of the list that lie in the grid are forced to -1
scanMatrix(raw) ==
  [n \in Nodes |->
     IF \E i \in 1..kOmittedNodeCount : OMMITTED_NODES[i] = n
     THEN FMinusOne ELSE raw[n]]

\* non-positive readings and readings above MAX_RESISTANCE become MAX_RESISTANCE
ClipRaw(v) ==
  LET v1 == IF FLe(v, FZero) THEN MAX_RESISTANCE ELSE v
  IN IF FLt(MAX_RESISTANCE, v1) THEN MAX_RESISTANCE ELSE v1

\* only values below MAX_RESISTANCE are accumulated
IsValidSample(v) == FLt(v, MAX_RESISTANCE)

\* the warm-up loop's update of one node's running sum
AccumulateSum(sum, r, c, reading) ==
  IF isOmittedNode(r, c) THEN sum
  ELSE LET v == ClipRaw(reading) IN
       IF IsValidSample(v) THEN FAdd(sum, v) ELSE sum

AccumulateCountAlways(count, r, c, reading) ==
  IF isOmittedNode(r, c) THEN count ELSE (count + 1) % 65536

\* the warm-up loop's update of one node's running count (uint16_t)
AccumulateCount(count, r, c, reading) ==
  IF isOmittedNode(r, c) THEN count
  ELSE LET v == ClipRaw(reading) IN
       IF IsValidSample(v) THEN (count + 1) % 65536 ELSE count

FreezeDueEarly(fc) == fc >= kRestingHistorySize - 1

\* if (frameCount >= kRestingHistorySize)
FreezeDue(fc) == fc >= kRestingHistorySize

FreezeStateRawFallback(sum, count, r, c, reading) ==
  IF isOmittedNode(r, c) THEN MAX_RESISTANCE
  ELSE IF count > 0 THEN FDiv(sum, FromInt(count))
  ELSE reading

\* restingState of one node at the freeze
FreezeState(sum, count, r, c, reading) ==
  IF isOmittedNode(r, c) THEN MAX_RESISTANCE
  ELSE IF count > 0 THEN FDiv(sum, FromInt(count))
  ELSE ClipRaw(reading)

FreezeMultiplierOne(state, r, c) == FOne

\* nodeMultiplier of one node at the freeze
FreezeMultiplier(state, r, c) ==
  IF isOmittedNode(r, c) THEN FOne
  ELSE IF FLt(FZero, state) THEN FDiv(MAX_RESISTANCE, state)
  ELSE FOne

\* applyMultipliersAndClip for one non-omitted node
ScaleNode(reading, multiplier) ==
  LET v == FMul(ClipRaw(reading), multiplier)
      v1 == IF FLt(MAX_RESISTANCE, v) THEN MAX_RESISTANCE ELSE v
  IN IF FLt(v1, MIN_RESISTANCE) THEN MIN_RESISTANCE ELSE v1

applyMultipliersAndClipTwice(nr, mult) ==
  [n \in Nodes |->
     IF isOmittedNode(n[1], n[2]) THEN FMinusOne
     ELSE ScaleNode(ScaleNode(nr[n], mult[n]), mult[n])]

\* applyMultipliersAndClip (restingFrozen holds)
applyMultipliersAndClip(nr, mult) ==
  [n \in Nodes |->
     IF isOmittedNode(n[1], n[2]) THEN FMinusOne ELSE ScaleNode(nr[n], mult[n])]

quantize_u16NoClamp(x, minV, maxV) ==
  LET range == FSub(maxV, minV)
  IN IF FLe(range, FZero) THEN 0
     ELSE LET q == LRound(FMul(FDiv(FSub(x, minV), range), FU16Max))
          IN IF q > 65535 THEN 65535 ELSE q

quantize_u16(x, minV, maxV) ==
  LET x1 == IF FLt(x, minV) THEN minV ELSE x
      x2 == IF FLt(maxV, x1) THEN maxV ELSE x1
      range == FSub(maxV, minV)
  IN IF FLe(range, FZero) THEN 0
     ELSE LET norm == FDiv(FSub(x2, minV), range)
              q == LRound(FMul(norm, FU16Max))
          IN IF q > 65535 THEN 65535 ELSE q

packMatrixToPayloadColumnMajor(nr, minV, maxV, id) ==
  LET q == <<>> \o
        [i \in 1..kSampleCount |->
           LET idx == i - 1
               x == nr[<<idx % numRows, idx \div numRows>>]
               x1 == IF FLt(maxV, x) THEN maxV ELSE x
               x2 == IF FLt(x1, minV) THEN minV ELSE x1
           IN quantize_u16(x2, minV, maxV)]
  IN <<kMagic % 256, kMagic \div 256, id % 256, id \div 256>> \o
     [k \in 1..(2 * kSampleCount) |->
        IF (k - 1) % 2 = 0 THEN q[(k + 1) \div 2] % 256 ELSE q[(k + 1) \div 2] \div 256]

\* packMatrixToPayload: the bytes of payload[] afterwards
packMatrixToPayload(nr, minV, maxV, id) ==
  LET q == <<>> \o
        [i \in 1..kSampleCount |->
           LET idx == i - 1
               x == nr[<<idx \div numCols, idx % numCols>>]
               x1 == IF FLt(maxV, x) THEN maxV ELSE x
               x2 == IF FLt(x1, minV) THEN minV ELSE x1
           IN quantize_u16(x2, minV, maxV)]
  IN <<kMagic % 256, kMagic \div 256, id % 256, id \div 256>> \o
     [k \in 1..(2 * kSampleCount) |->
        IF (k - 1) % 2 = 0 THEN q[(k + 1) \div 2] % 256 ELSE q[(k + 1) \div 2] \div 256]

\* frame_id++ on a uint16_t
NextFrameId(id) == (id + 1) % 65536

CarriedIdPreIncrement(id) == (id + 1) % 65536

\* the id handed to packMatrixToPayload by frame_id++
CarriedId(id) == id

TransportReadyAlways(connected, notifyEnabled) == TRUE

\* Bluefruit.connected() && bleuart.notifyEnabled()
TransportReady(connected, notifyEnabled) == connected /\ notifyEnabled

----------------------------------------------------------------------------
(* Host: decoding with the configured (minV, maxV).  The host computes in   *)
(* doubles; here a dequantized value v is held exactly, as the integer      *)
(* v * 65535, and a rescaled cell x as the integer x * HostUnit.  The       *)
(* doubles agree with the exact values at q = 0 and q = 65535, and no q     *)
(* dequantizes to a value within rounding of the thresholds 0, 700 or 3700. *)

HostUnit == 65535 * 30

dequantizeU16NoOffset(q, minV, maxV) == q * (maxV - minV)

\* dequantizeU16(q, minV, maxV) * 65535
dequantizeU16(q, minV, maxV) == minV * 65535 + q * (maxV - minV)

\* decodePayloadU16 over the bytes after the header
decodePayloadU16(bytes, minV, maxV) ==
  [i \in 1..(Len(bytes) \div 2) |->
     dequantizeU16(bytes[2 * i - 1] + bytes[2 * i] * 256, minV, maxV)]

rescaleCellNoMarker(value) ==
  LET scaled == value - 700 * 65535
  IN IF scaled < 0 THEN 0
     ELSE IF scaled > 100 * HostUnit THEN 100 * HostUnit ELSE scaled

\* one cell of rescaleMatrix, times HostUnit (-HostUnit is the marker -1)
rescaleCell(value) ==
  IF value <= 0 THEN -HostUnit
  ELSE LET scaled == value - 700 * 65535
       IN IF scaled < 0 THEN 0
          ELSE IF scaled > 100 * HostUnit THEN 100 * HostUnit ELSE scaled

\* what the host shows for the sample that the firmware wrote for node (r, c)
HostDisplay(bytes, r, c) ==
  rescaleCell(decodePayloadU16(Slice(bytes, kHeaderBytes), BLE_MIN_V, BLE_MAX_V)
                [r * numCols + c + 1])

\* the u16 sample of node (r, c) in a frame
SampleAt(bytes, r, c) ==
  bytes[kHeaderBytes + 2 * (r * numCols + c) + 1]
    + bytes[kHeaderBytes + 2 * (r * numCols + c) + 2] * 256

----------------------------------------------------------------------------
(* loop() *)

Sat(x, cap) == IF x < cap THEN x + 1 ELSE x

WarmingAlways(frozen) == TRUE

\* if (!restingFrozen)
Warming(frozen) == ~frozen

MaxCycles == kRestingHistorySize + MaxFwFrames

\* one call of loop(): `raw` is what the electrical scan derives, `connected`
\* and `notifyEnabled` what the BLE stack answers
Loop(raw, connected, notifyEnabled) ==
  LET scanned == scanMatrix(raw)
      ready == TransportReady(connected, notifyEnabled)
  IN
  /\ rawScan' = raw
  /\ transport' = [connected |-> connected, notifyEnabled |-> notifyEnabled]
  /\ cycles' = Sat(cycles, MaxCycles)
  /\ alwaysReady' = (alwaysReady /\ connected /\ notifyEnabled)
  /\ frozenAtStart' = restingFrozen
  /\ IF Warming(restingFrozen)
     THEN
       LET fc == frameCount + 1
           st == [n \in Nodes |->
                    FreezeState(restingSum'[n], restingCount'[n], n[1], n[2],
                                nodeResistance'[n])]
       IN /\ nodeResistance' = scanned
          /\ restingSum' = [n \in Nodes |->
                AccumulateSum(restingSum[n], n[1], n[2], nodeResistance'[n])]
          /\ restingCount' = [n \in Nodes |->
                AccumulateCount(restingCount[n], n[1], n[2], nodeResistance'[n])]
          /\ frameCount' = fc
          /\ fedVals' = [n \in Nodes |-> fedVals[n] \cup {raw[n]}]
          /\ IF FreezeDue(fc)
             THEN /\ restingState' = st
                  /\ nodeMultiplier' = [n \in Nodes |->
                        FreezeMultiplier(restingState'[n], n[1], n[2])]
                  /\ restingFrozen' = TRUE
             ELSE UNCHANGED <<restingState, nodeMultiplier, restingFrozen>>
          /\ written' = <<>>
          /\ UNCHANGED <<frame_id, payload, framesSent, prevId, lastId>>
     ELSE
       /\ nodeResistance' = applyMultipliersAndClip(scanned, nodeMultiplier)
       /\ UNCHANGED <<restingSum, restingCount, restingState, nodeMultiplier,
                      frameCount, restingFrozen, fedVals>>
       /\ IF ready
          THEN /\ payload' = packMatrixToPayload(nodeResistance', MIN_RESISTANCE,
                                                  MAX_RESISTANCE, CarriedId(frame_id))
               /\ frame_id' = NextFrameId(frame_id)
               /\ written' = sendChunked(payload', kPayloadBytes, kTxChunkSize, FALSE)
               /\ framesSent' = Sat(framesSent, MaxCycles)
               /\ prevId' = lastId
               /\ lastId' = payload'[3] + payload'[4] * 256
          ELSE /\ written' = <<>>
               /\ UNCHANGED <<frame_id, payload, framesSent, prevId, lastId>>
  /\ UNCHANGED rxVars
  /\ UNCHANGED linkVars
  /\ UNCHANGED callVars

\* the readings of a cycle; MAX_RESISTANCE stands for an open or saturated node
RawVals == {Raw500, Raw1000, Raw365, MAX_RESISTANCE, Raw21120}

\* the populated node whose measurement varies from cycle to cycle, and an
\* omitted node at which the scan measures 500 ohms; every other node reads
\* open
Probe == <<1, 1>>
ProbeOmitted == <<0, 0>>

Grid(a) ==
  [n \in Nodes |->
     IF n = Probe THEN a
     ELSE IF n = ProbeOmitted THEN Raw500 ELSE MAX_RESISTANCE]

RawGrids == {Grid(a) : a \in RawVals}

FwInit == FwSetup /\ RxIdle /\ LinkIdle /\ CallIdle

FwNext ==
  \E raw \in RawGrids : \E connected \in BOOLEAN : \E notifyEnabled \in BOOLEAN :
    /\ cycles < MaxCycles
    /\ Loop(raw, connected, notifyEnabled)

SpecFw == FwInit /\ [][FwNext]_vars

----------------------------------------------------------------------------
(* SpecId: the firmware at rest for as long as the frame counter takes to    *)
(* wrap                                                                     *)

RestGrid == Grid(Raw1000)

\* notifications may be off on the cycles around the first frames and around
\* the wrap of the counter
OutageWindow(id) == id < MaxFwFrames \/ id >= 65536 - MaxFwFrames

IdNext ==
  \E notifyEnabled \in BOOLEAN :
    /\ notifyEnabled \/ OutageWindow(frame_id)
    /\ Loop(RestGrid, TRUE, notifyEnabled)

SpecId == FwInit /\ [][IdNext]_vars

----------------------------------------------------------------------------
(* Claims about the reassembler *)

HasPair(s) == \E i \in 1..(Len(s) - 1) : s[i] = 239 /\ s[i + 1] = 190

OneShot(s) == MagicAddChunk(<<>>, s)

\* C2: however the stream fed so far was split into fragments, the frames
\* returned so far and the retained buffer are those of feeding the same
\* bytes as one contiguous block.
C2_FragmentationInvariance ==
  /\ emitted = OneShot(stream).out
  /\ rxBuffer = OneShot(stream).buffer

C2_Witness ==
  /\ Len(stream) > RxMtu
  /\ Len(emitted) >= 1
  /\ Len(rxBuffer) >= 2
  /\ emitted[1] # SubSeq(stream, 1, frameLen)

\* C4: every emitted frame has exactly frameLen bytes and begins with EF BE,
\* so decodeFrameU16 with 4 + 2*rows*cols = frameLen raises neither error.
C4_EmittedWellFormed ==
  \A i \in 1..Len(emitted) :
    /\ Len(emitted[i]) = frameLen
    /\ emitted[i][1] = 239
    /\ emitted[i][2] = 190
    /\ DecodeError(emitted[i], 1, RxSamples) = "none"

C4_Witness ==
  /\ Len(emitted) >= 1
  /\ FindMagic(stream) > 0
  /\ DecodeError(emitted[1], 1, RxSamples) = "none"

----------------------------------------------------------------------------
(* Claims about the firmware and the host's decoding *)

FrameWritten == written # <<>>

LiveNodes == {n \in Nodes : ~isOmittedNode(n[1], n[2])}

\* C5: in every transmitted frame, whatever was measured and in whatever
\* calibration phase, every omitted node of the grid carries the sample 0,
\* and the host shows the "no sensor" marker -1 for that sample.
C5_OmittedNodesDecodeToMarker ==
  FrameWritten =>
    \A n \in Nodes :
      (\E i \in 1..kOmittedNodeCount : OMMITTED_NODES[i] = n) =>
        /\ SampleAt(payload, n[1], n[2]) = 0
        /\ HostDisplay(payload, n[1], n[2]) = -HostUnit

\* a frame was transmitted on a cycle whose scan measured 500 ohms at an
\* omitted node
C5_Witness ==
  /\ FrameWritten
  /\ rawScan[ProbeOmitted] = Raw500
  /\ isOmittedNode(ProbeOmitted[1], ProbeOmitted[2])
  /\ SampleAt(payload, ProbeOmitted[1], ProbeOmitted[2]) = 0

RestedAt1000 ==
  /\ restingFrozen
  /\ frozenAtStart
  /\ FrameWritten
  /\ fedVals[Probe] = {Raw1000}

\* C6: after a warm-up at 1000 ohms on a populated node, a frozen-state
\* reading of 1000 ohms is shown as the minimum display bound 0 and a
\* reading of 500 ohms as a strictly greater value.
C6_RestShowsMinimum ==
  RestedAt1000 =>
    /\ rawScan[Probe] = Raw1000 => HostDisplay(payload, Probe[1], Probe[2]) = 0
    /\ rawScan[Probe] = Raw500 => HostDisplay(payload, Probe[1], Probe[2]) > 0

\* C6, as the code behaves: the resting reading is shown as the maximum
\* display bound 100, the pressed reading as a smaller value above 0.
C6_RestShowsMaximum ==
  RestedAt1000 =>
    /\ rawScan[Probe] = Raw1000 =>
         HostDisplay(payload, Probe[1], Probe[2]) = 100 * HostUnit
    /\ rawScan[Probe] = Raw500 =>
         /\ HostDisplay(payload, Probe[1], Probe[2]) > 0
         /\ HostDisplay(payload, Probe[1], Probe[2]) < 100 * HostUnit

C6_Witness ==
  /\ RestedAt1000
  /\ rawScan[Probe] = Raw500

\* the one value v, 0 < v < MAX_RESISTANCE, that node n was fed on every
\* warm-up cycle
FedConstant(n, v) ==
  /\ fedVals[n] = {v}
  /\ FLt(FZero, v)
  /\ FLt(v, MAX_RESISTANCE)

FAbs(a) == <<Abs(a[1]), a[2]>>

\* 2^-16
RoundingTolerance == <<8388608, -39>>

\* |a - b| <= |b| * 2^-16
Near(a, b) == FLe(FAbs(FSub(a, b)), FMul(FAbs(b), RoundingTolerance))

\* C7 as stated: a populated node fed the same v, 0 < v < MAX_RESISTANCE, on
\* all W warm-up cycles freezes with resting_average = v and multiplier =
\* MAX_RESISTANCE / v, and every later output for raw v equals MAX_RESISTANCE.
C7_ExactConvergence ==
  \A n \in LiveNodes : \A v \in RawVals :
    (restingFrozen /\ FedConstant(n, v)) =>
      /\ restingState[n] = v
      /\ nodeMultiplier[n] = FDiv(MAX_RESISTANCE, v)
      /\ (frozenAtStart /\ rawScan[n] = v) => nodeResistance[n] = MAX_RESISTANCE

\* C7 (amended): the same, up to float rounding: resting_average is within a
\* relative 2^-16 of v, the multiplier is the float quotient of MAX_RESISTANCE
\* by resting_average, and every later output for raw v is at most
\* MAX_RESISTANCE and within a relative 2^-16 of it.
C7_ConvergenceUpToRounding ==
  \A n \in LiveNodes : \A v \in RawVals :
    (restingFrozen /\ FedConstant(n, v)) =>
      /\ Near(restingState[n], v)
      /\ nodeMultiplier[n] = FDiv(MAX_RESISTANCE, restingState[n])
      /\ (frozenAtStart /\ rawScan[n] = v) =>
           /\ FLe(nodeResistance[n], MAX_RESISTANCE)
           /\ Near(nodeResistance[n], MAX_RESISTANCE)

\* a node was fed 365.85479736328125 throughout the warm-up, the state is
\* frozen, and a later cycle read the same value; the output is not exact
C7_Witness ==
  /\ restingFrozen
  /\ frozenAtStart
  /\ FedConstant(Probe, Raw365)
  /\ rawScan[Probe] = Raw365
  /\ nodeResistance[Probe] # MAX_RESISTANCE

\* C8: nothing is encoded or written while warming, whatever the transport
\* state: after the first W cycles (the freezing cycle included) no fragment
\* was written and frame_id is 0; a frame is written only on a cycle that
\* began frozen; with the transport always ready, n cycles send
\* max(0, n - W) frames.
C8_SilentWarmup ==
  /\ ~restingFrozen => (framesSent = 0 /\ ~FrameWritten /\ frame_id = 0 /\ lastId = -1)
  /\ cycles <= kRestingHistorySize =>
       (framesSent = 0 /\ ~FrameWritten /\ frame_id = 0
          /\ payload = [i \in 1..kPayloadBytes |-> 0])
  /\ FrameWritten => frozenAtStart
  /\ alwaysReady =>
       framesSent = (IF cycles > kRestingHistorySize
                     THEN cycles - kRestingHistorySize ELSE 0)

\* the transport was ready on every cycle and frames were sent after the
\* warm-up
C8_Witness ==
  /\ alwaysReady
  /\ cycles = kRestingHistorySize + MaxFwFrames
  /\ framesSent = MaxFwFrames
  /\ FrameWritten

\* C9: the state freezes exactly when the cycle counter reaches W; once
\* frozen it stays frozen, and no later cycle changes a running sum, a
\* running count, a resting average or a multiplier.
C9_FrozenIsTerminal ==
  [][/\ restingFrozen =>
          /\ restingFrozen'
          /\ UNCHANGED <<restingSum, restingCount, restingState, nodeMultiplier>>
          /\ UNCHANGED frameCount
     /\ (~restingFrozen /\ restingFrozen') => frameCount' = kRestingHistorySize
     /\ (~restingFrozen /\ frameCount' = kRestingHistorySize) => restingFrozen'
     /\ ~restingFrozen => frameCount' = cycles']_vars

\* a cycle ran in the frozen state with a pressed reading and a ready
\* transport
C9_Witness ==
  /\ restingFrozen
  /\ frozenAtStart
  /\ FrameWritten
  /\ rawScan[Probe] = Raw500
  /\ frameCount = kRestingHistorySize
  /\ cycles > kRestingHistorySize

\* C10: the first frame carries frame_id 0, each later frame the previous
\* frame's id plus 1 modulo 2^16, and the counter advances once per encoded
\* frame.
C10_FrameIdSequence ==
  /\ lastId = -1 => (frame_id = 0 /\ framesSent = 0)
  /\ (lastId # -1 /\ prevId = -1) => lastId = 0
  /\ prevId # -1 => lastId = (prevId + 1) % 65536
  /\ lastId # -1 => frame_id = (lastId + 1) % 65536
  /\ FrameWritten => (payload[3] + payload[4] * 256 = lastId)

\* the frame after the one numbered 65535 was sent
C10_Witness ==
  /\ prevId = 65535
  /\ lastId = 0
  /\ FrameWritten

\* the bytes written on the latest cycle, in write order
WrittenBytes == Concat(written)

\* C11: a frozen cycle on which the link is not connected or notifications
\* are off writes no fragment, leaves the payload buffer and frame_id as they
\* were and queues nothing: whenever a frame is written it is one frame, the
\* encoding of the values of that same cycle's scan, so the data of a skipped
\* cycle is never sent later.
C11_TransmitNoOp ==
  /\ [][(restingFrozen /\ ~(transport'.connected /\ transport'.notifyEnabled)) =>
          /\ written' = <<>>
          /\ UNCHANGED <<payload, frame_id, framesSent, prevId, lastId>>]_vars
  /\ [](FrameWritten =>
          /\ transport.connected /\ transport.notifyEnabled
          /\ nodeResistance = applyMultipliersAndClip(scanMatrix(rawScan), nodeMultiplier)
          /\ WrittenBytes = packMatrixToPayload(nodeResistance, MIN_RESISTANCE,
                                                MAX_RESISTANCE, lastId)
          /\ WrittenBytes = payload)

\* the cycle after a skipped frozen cycle was ready and wrote a frame
C11_Witness ==
  /\ FrameWritten
  /\ framesSent = 1
  /\ cycles = kRestingHistorySize + 2

----------------------------------------------------------------------------
(* Exact comparison of rationals, for stating bounds on computed values *)

\* a/b <= c/d, for 0 <= a < b and 0 <= c < d
RECURSIVE FracLe(_, _, _, _)
FracLe(a, b, c, d) ==
  IF a = 0 THEN TRUE
  ELSE IF c = 0 THEN FALSE
  ELSE IF d \div c # b \div a THEN d \div c < b \div a
  ELSE FracLe(d % c, c, b % a, a)

\* n1/d1 <= n2/d2, for d1 > 0 and d2 > 0
RatLe(n1, d1, n2, d2) ==
  IF n1 \div d1 # n2 \div d2 THEN n1 \div d1 < n2 \div d2
  ELSE FracLe(n1 % d1, d1, n2 % d2, d2)

\* the float x as a fraction <<numerator, denominator>>, in lowest terms
RECURSIVE FloatRat(_)
FloatRat(x) ==
  IF x[1] = 0 THEN <<0, 1>>
  ELSE IF x[2] >= 0 THEN <<x[1] * 2^(x[2]), 1>>
  ELSE IF x[1] % 2 = 0 THEN FloatRat(<<x[1] \div 2, x[2] + 1>>)
  ELSE <<x[1], 2^(-x[2])>>

----------------------------------------------------------------------------
(* SpecQuant: quantize_u16 called on its own, its result dequantized by the  *)
(* host                                                                     *)

\* (minV, maxV) pairs: the firmware's, the host's, others, and two
\* degenerate ones
QuantRanges == {<<-1, 6000>>, <<-1, 3700>>, <<0, 1>>, <<0, 100>>, <<-100, 100>>,
                <<5, 5>>, <<6000, -1>>}

\* values around and between the ends of the ranges, among them the floats
\* next to -1 and 6000 and floats nearest to the midpoint between two codes
QuantInts == {-101, -100, -99, -2, -1, 0, 1, 2, 5, 50, 99, 100, 101,
              3699, 3700, 3701, 5999, 6000, 6001, 21120}

QuantFloats ==
  {<<8388608, -24>>, <<12582912, -24>>, <<16640382, -24>>,
   <<-16777215, -24>>, <<-8388609, -23>>, <<-16009076, -24>>, <<-14472797, -24>>,
   <<-9671188, -24>>, <<12287827, -12>>, <<12287906, -11>>, <<9252617, -13>>,
   <<9248661, -12>>, <<12288001, -11>>, <<12287999, -11>>,
   <<11988330, -15>>, <<15787618, -17>>, <<13111294, -13>>, <<12256705, -11>>}

QuantInputs ==
  {[x |-> x, minV |-> r[1], maxV |-> r[2]] :
     x \in {FromInt(n) : n \in QuantInts} \cup QuantFloats, r \in QuantRanges}

QuantInit ==
  /\ callArgs \in QuantInputs
  /\ callResult = <<>>
  /\ called = FALSE
  /\ FwSetup
  /\ RxIdle
  /\ LinkIdle

QuantCall ==
  /\ ~called
  /\ called' = TRUE
  /\ callResult' = quantize_u16(callArgs.x, FromInt(callArgs.minV), FromInt(callArgs.maxV))
  /\ UNCHANGED callArgs
  /\ UNCHANGED rxVars
  /\ UNCHANGED linkVars
  /\ UNCHANGED fwVars

SpecQuant == QuantInit /\ [][QuantCall]_vars

----------------------------------------------------------------------------
(* Claims about quantization *)

\* minV <= x <= maxV
InRange(a) ==
  /\ FLe(FromInt(a.minV), a.x)
  /\ FLe(a.x, FromInt(a.maxV))

\* C12: for maxV > minV and every x in [minV, maxV], the host's dequantizeU16
\* of the firmware's quantize_u16 of x, with the same (minV, maxV), differs
\* from x by at most (maxV - minV) / 65535.
C12_RoundTripBound ==
  (called /\ callArgs.maxV > callArgs.minV /\ InRange(callArgs)) =>
    LET d == dequantizeU16(callResult, callArgs.minV, callArgs.maxV)
        r == callArgs.maxV - callArgs.minV
        x == FloatRat(callArgs.x)
    IN /\ RatLe(d - r, 65535, x[1], x[2])
       /\ RatLe(x[1], x[2], d + r, 65535)

\* the float nearest to the midpoint between the codes 32772 and 32773 of
\* (-1, 6000) was quantized
C12_Witness ==
  /\ called
  /\ callArgs = [x |-> <<12287827, -12>>, minV |-> -1, maxV |-> 6000]
  /\ callResult \in {32772, 32773}

\* C13: for maxV > minV, quantize_u16 is 0 for every x <= minV and 65535 for
\* every x >= maxV; for maxV <= minV it is 0 for every x; the result is
\* always within 0..65535.
C13_SaturationAndGuard ==
  called =>
    /\ callResult \in 0..65535
    /\ callArgs.maxV <= callArgs.minV => callResult = 0
    /\ (callArgs.maxV > callArgs.minV /\ FLe(callArgs.x, FromInt(callArgs.minV)))
         => callResult = 0
    /\ (callArgs.maxV > callArgs.minV /\ FLe(FromInt(callArgs.maxV), callArgs.x))
         => callResult = 65535

\* a value above maxV was quantized with the firmware's range
C13_Witness ==
  /\ called
  /\ callArgs = [x |-> Raw21120, minV |-> -1, maxV |-> 6000]
  /\ callResult = 65535

----------------------------------------------------------------------------
(* SpecChunk: sendChunked called on its own, without sequence header *)

\* the frame the firmware as built hands to sendChunked
FW_kPayloadBytes == kHeaderBytes + FW_numRows * FW_numCols * 2

\* short buffers with every chunk size, long ones with the larger chunk sizes
ShortLens == {0, 1, 2, 3, 4, 5, 19, 20, 21, 40}
LongLens == {FW_kPayloadBytes, 200, 243, 244, 245, 488, 489}
ChunkSizes == {-1, 0, 1, 2, 3, 7, kTxChunkSize, 243, kMaxChunkSize, 245, 300}
LargeChunkSizes == {cs \in ChunkSizes : cs <= 0 \/ cs >= 7}

\* a buffer of len bytes whose content tells the offsets apart
ChunkData(len) == [i \in 1..len |-> (i * 7) % 256]

ChunkInputs ==
  {[data |-> ChunkData(len), len |-> len, chunkSize |-> cs] :
     len \in ShortLens, cs \in ChunkSizes}
  \cup
  {[data |-> ChunkData(len), len |-> len, chunkSize |-> cs] :
     len \in LongLens, cs \in LargeChunkSizes}

ChunkInit ==
  /\ callArgs \in ChunkInputs
  /\ callResult = <<>>
  /\ called = FALSE
  /\ FwSetup
  /\ RxIdle
  /\ LinkIdle

ChunkCall ==
  /\ ~called
  /\ called' = TRUE
  /\ callResult' = sendChunked(callArgs.data, callArgs.len, callArgs.chunkSize, FALSE)
  /\ UNCHANGED callArgs
  /\ UNCHANGED rxVars
  /\ UNCHANGED linkVars
  /\ UNCHANGED fwVars

SpecChunk == ChunkInit /\ [][ChunkCall]_vars

----------------------------------------------------------------------------
(* Claims about the chunker *)

\* the fragment size sendChunked works with
CappedChunk(chunkSize) == IF chunkSize > kMaxChunkSize THEN kMaxChunkSize ELSE chunkSize

\* ceil(len / min(chunkSize, 244)) fragments, each at most that size and all
\* but the last exactly that size, whose concatenation is the data
ChunksCover(a, w) ==
  LET cs == CappedChunk(a.chunkSize) IN
  /\ Len(w) = (a.len + cs - 1) \div cs
  /\ \A i \in 1..Len(w) :
       /\ Len(w[i]) >= 1
       /\ Len(w[i]) <= cs
       /\ i < Len(w) => Len(w[i]) = cs
  /\ Concat(w) = a.data

\* C14 as stated: without sequence header and for chunkSize >= 1 the writes
\* are ceil(len / min(chunkSize, 244)) fragments in sequence, each at most
\* the chunk size and all but the last exactly that size, concatenating to
\* the data; the firmware's frame, with chunkSize 20, is written as exactly
\* 10 fragments of 20 bytes.
C14_FrameInTenFullFragments ==
  (called /\ callArgs.chunkSize >= 1) =>
    /\ ChunksCover(callArgs, callResult)
    /\ (callArgs.len = FW_kPayloadBytes /\ callArgs.chunkSize = kTxChunkSize) =>
         /\ Len(callResult) = 10
         /\ \A i \in 1..10 : Len(callResult[i]) = 20

\* C14 (amended): the same property of the fragments; a 200-byte buffer with
\* chunkSize 20 is written as 10 fragments of 20 bytes, and the firmware's
\* frame, which has 196 bytes, as 9 fragments of 20 bytes and one of 16.
C14_ChunksCoverData ==
  (called /\ callArgs.chunkSize >= 1) =>
    /\ ChunksCover(callArgs, callResult)
    /\ (callArgs.len = 200 /\ callArgs.chunkSize = 20) =>
         /\ Len(callResult) = 10
         /\ \A i \in 1..10 : Len(callResult[i]) = 20
    /\ (callArgs.len = FW_kPayloadBytes /\ callArgs.chunkSize = kTxChunkSize) =>
         /\ FW_kPayloadBytes = 196
         /\ Len(callResult) = 10
         /\ \A i \in 1..9 : Len(callResult[i]) = 20
         /\ Len(callResult[10]) = 16

\* the firmware's frame was chunked at chunkSize 20
C14_Witness ==
  /\ called
  /\ callArgs.len = FW_kPayloadBytes
  /\ callArgs.chunkSize = kTxChunkSize
  /\ Len(callResult) = 10

----------------------------------------------------------------------------
(* SpecDecode: decodeFrameU16 called on its own *)

\* toUint8Array: typed arrays, array buffers and arrays give their bytes,
\* anything else an empty array
toUint8Array(input) ==
  IF input.kind \in {"Uint8Array", "ArrayBuffer", "Array"} THEN input.bytes
  ELSE <<>>

\* decodeFrameU16(input, {minV, maxV, rows, cols}): the error thrown, or the
\* frameId and the rescaled matrix (its cells times HostUnit)
decodeFrameU16(input, minV, maxV, rows, cols) ==
  LET bytes == toUint8Array(input)
      err == DecodeError(bytes, rows, cols)
  IN IF err # "none" THEN [error |-> err]
     ELSE LET values == decodePayloadU16(Slice(bytes, 4), minV, maxV) IN
          [error |-> "none",
           frameId |-> bytes[3] + bytes[4] * 256,
           matrix |-> [r \in 0..(rows - 1) |->
                         [c \in 0..(cols - 1) |-> rescaleCell(values[r * cols + c + 1])]]]

DecodeGrids == {<<1, 1>>, <<1, 2>>, <<2, 1>>}

\* byte containers of every length up to MaxDecodeLen, and the same bytes
\* held by an object that toUint8Array does not recognise
DecodeInputs ==
  {[payload |-> [kind |-> k, bytes |-> b], rows |-> g[1], cols |-> g[2]] :
     k \in {"Uint8Array"}, b \in SeqsUpTo(ByteVals, MaxDecodeLen), g \in DecodeGrids}
  \cup
  {[payload |-> [kind |-> k, bytes |-> b], rows |-> g[1], cols |-> g[2]] :
     k \in {"ArrayBuffer", "Array", "DataView"},
     b \in {<<>>, <<magicLo, magicHi, 0, 0, 0, 0>>, <<magicLo, magicHi, 0, 0, 0, 0, 0, 0>>},
     g \in DecodeGrids}

DecodeInit ==
  /\ callArgs \in DecodeInputs
  /\ callResult = <<>>
  /\ called = FALSE
  /\ FwSetup
  /\ RxIdle
  /\ LinkIdle

\* a call, or a further call with the same arguments
DecodeCall ==
  /\ called' = TRUE
  /\ callResult' = decodeFrameU16(callArgs.payload, BLE_MIN_V, BLE_MAX_V,
                                  callArgs.rows, callArgs.cols)
  /\ UNCHANGED callArgs
  /\ UNCHANGED rxVars
  /\ UNCHANGED linkVars
  /\ UNCHANGED fwVars

SpecDecode == DecodeInit /\ [][DecodeCall]_vars

----------------------------------------------------------------------------
(* Claims about the decoder *)

\* C15: decodeFrameU16 raises an error for every input whose length differs
\* from 4 + 2*rows*cols and for every input of that length whose first two
\* bytes are not EF BE; for every other input it returns frameId =
\* bytes[2] | (bytes[3] << 8) and a rows by cols matrix; a further call with
\* the same arguments returns the same.
C15_DecoderValidation ==
  called =>
    LET bytes == toUint8Array(callArgs.payload)
        sized == Len(bytes) = 4 + 2 * callArgs.rows * callArgs.cols
        magic == sized /\ bytes[1] = 239 /\ bytes[2] = 190
    IN /\ ~sized => callResult.error # "none"
       /\ (sized /\ ~magic) => callResult.error # "none"
       /\ magic =>
            /\ callResult.error = "none"
            /\ callResult.frameId = bytes[3] + 256 * bytes[4]
            /\ DOMAIN callResult.matrix = 0..(callArgs.rows - 1)
            /\ \A r \in DOMAIN callResult.matrix :
                 DOMAIN callResult.matrix[r] = 0..(callArgs.cols - 1)

\* a well-formed 1 by 2 frame numbered 0xBEEF was decoded
C15_Witness ==
  /\ called
  /\ callArgs.rows = 1
  /\ callArgs.cols = 2
  /\ callArgs.payload.bytes = <<239, 190, 239, 190, 0, 0, 239, 190>>
  /\ callResult.error = "none"
  /\ callResult.frameId = 48879

----------------------------------------------------------------------------
(* SpecAgree: frames of the firmware as built (12 by 8, quantized over       *)
(* MIN_RESISTANCE..MAX_RESISTANCE), written in fragments of 20 bytes and    *)
(* delivered intact to the host as configured by default                    *)

MaxAgreeFrames == 3

\* payloadLen of the pages that start the stream
BLE_payloadLen == 4 + BLE_ROWS * BLE_COLS * 2

\* the while (true) loop of an assembler constructed with frame length len
RECURSIVE DrainFor(_, _, _)
DrainFor(len, buf, out) ==
  LET start == FindMagic(buf) IN
  IF start = -1 THEN [buffer |-> KeepTail(buf), out |-> out]
  ELSE
    LET b2 == DropJunk(buf, start) IN
    IF Len(b2) < len THEN [buffer |-> b2, out |-> out]
    ELSE DrainFor(len, Slice(b2, len), Append(out, Slice2(b2, 0, len)))

\* addChunk(data) on an assembler constructed with frame length len
MagicAddChunkFor(len, buffer, chunk) ==
  IF Len(chunk) = 0 THEN [buffer |-> buffer, out |-> <<>>]
  ELSE DrainFor(len, buffer \o chunk, <<>>)

\* the value every populated node holds in the frame numbered id
AgreeVals == <<MAX_RESISTANCE, FromInt(3000), Raw1000, Raw500>>
AgreeValue(id) == AgreeVals[(id % 4) + 1]

\* the frame packMatrixToPayload builds on the full grid when every node
\* holds x
FullFrame(id, x) ==
  LET q == quantize_u16(x, MIN_RESISTANCE, MAX_RESISTANCE) IN
  <<kMagic % 256, kMagic \div 256, id % 256, id \div 256>> \o
  [k \in 1..(2 * FW_numRows * FW_numCols) |->
     IF (k - 1) % 2 = 0 THEN q % 256 ELSE q \div 256]

AgreeInit ==
  /\ \E id0 \in 0..3 : \E n \in 1..MaxAgreeFrames :
       frames = [i \in 1..n |-> FullFrame(id0 + i - 1, AgreeValue(id0 + i - 1))]
  /\ pending = Concat([i \in 1..Len(frames) |->
                         sendChunked(frames[i], FW_kPayloadBytes, kTxChunkSize, FALSE)])
  /\ rxBuffer = <<>>
  /\ emitted = <<>>
  /\ stream = <<>>
  /\ garbage = <<>>
  /\ LinkIdle
  /\ FwSetup
  /\ CallIdle

\* the next fragment arrives and the notification handler runs addChunk
AgreeDeliver ==
  /\ pending # <<>>
  /\ LET r == MagicAddChunkFor(BLE_payloadLen, rxBuffer, Head(pending)) IN
       /\ rxBuffer' = r.buffer
       /\ emitted' = emitted \o r.out
  /\ stream' = stream \o Head(pending)
  /\ pending' = Tail(pending)
  /\ UNCHANGED <<garbage, frames>>
  /\ UNCHANGED linkVars
  /\ UNCHANGED fwVars
  /\ UNCHANGED callVars

SpecAgree == AgreeInit /\ [][AgreeDeliver]_vars

----------------------------------------------------------------------------
(* Claims about the constants of the two ends *)

\* the host's value for sample i (0-based) of an emitted frame is within one
\* step of the firmware's quantization, (MAX - MIN) / 65535, of the value
\* the firmware quantized for the frame of that number
SampleAgrees(f, i) ==
  LET d == dequantizeU16(f[5 + 2 * i] + f[6 + 2 * i] * 256, BLE_MIN_V, BLE_MAX_V)
      x == FloatRat(AgreeValue(f[3] + f[4] * 256))
  IN /\ RatLe(d - 6001, 65535, x[1], x[2])
     /\ RatLe(x[1], x[2], d + 6001, 65535)

\* C16: the host's default configuration has the firmware's grid, frame
\* length and (min, max): frames delivered intact are emitted one for one,
\* and each sample dequantizes to within one quantization step of the value
\* the firmware quantized.
C16_ConstantsAgree ==
  /\ BLE_ROWS = FW_numRows
  /\ BLE_COLS = FW_numCols
  /\ BLE_payloadLen = FW_kPayloadBytes
  /\ FromInt(BLE_MIN_V) = MIN_RESISTANCE
  /\ FromInt(BLE_MAX_V) = MAX_RESISTANCE
  /\ pending = <<>> => emitted = frames
  /\ \A k \in 1..Len(emitted) :
       \A i \in 0..(FW_numRows * FW_numCols - 1) : SampleAgrees(emitted[k], i)

\* C16, as the code behaves: the host cuts the stream every 238 bytes, so
\* what it emits is never a frame of the firmware, and at most one slice
\* comes out for every two frames delivered.
C16_HostCutsAtItsOwnLength ==
  /\ \A k \in 1..Len(emitted) :
       /\ Len(emitted[k]) = BLE_payloadLen
       /\ \A j \in 1..Len(frames) : emitted[k] # frames[j]
  /\ 2 * Len(emitted) <= Len(frames)

\* three frames were delivered intact, and one slice came out
C16_Witness ==
  /\ pending = <<>>
  /\ Len(frames) = 3
  /\ Len(emitted) = 1

----------------------------------------------------------------------------
(* Claims about magic bytes inside frames *)

\* the frames wholly contained in the bytes delivered so far
FramesDelivered == SubSeq(frames, 1, Len(stream) \div frameLen)

\* C17: starting from an empty buffer, frames that follow one another with
\* nothing in between, whose frame_id or samples may hold the magic pair,
\* delivered without loss in any fragmentation: at every moment the frames
\* emitted are exactly the frames wholly delivered, byte-identical and in
\* order, and the buffer holds exactly the bytes of the frame in progress.
C17_InPayloadMagicHarmless ==
  garbage = <<>> =>
    /\ emitted = FramesDelivered
    /\ rxBuffer = Slice(stream, Len(emitted) * frameLen)

\* two frames, frame_id 0xBEEF then a sample 0xBEEF, both emitted intact
C17_Witness ==
  /\ garbage = <<>>
  /\ pending = <<>>
  /\ Len(frames) = 2
  /\ frames[1] = <<magicLo, magicHi>> \o MagicAt(0)
  /\ frames[2] = <<magicLo, magicHi>> \o MagicAt(payloadLen - 2)
  /\ emitted = frames

\* the 0-based stream offsets at which the while loop cuts its frames when
\* it runs over buf, whose first byte is at stream offset base
RECURSIVE CutOffsets(_, _)
CutOffsets(buf, base) ==
  LET start == FindMagic(buf) IN
  IF start = -1 THEN <<>>
  ELSE IF Len(DropJunk(buf, start)) < frameLen THEN <<>>
  ELSE <<base + start>> \o
       CutOffsets(Slice(buf, start + frameLen), base + start + frameLen)

\* offset is where one of the frames sent begins in the stream
TrueFrameStart(offset) ==
  /\ offset >= Len(garbage)
  /\ (offset - Len(garbage)) % frameLen = 0

\* C18: a magic pair that is not a frame start (in the bytes before the
\* first frame) yields no frame: every frame emitted starts at a true frame
\* start.
C18_EmittedAtTrueStarts ==
  LET cuts == CutOffsets(stream, 0) IN
  /\ Len(cuts) = Len(emitted)
  /\ \A i \in 1..Len(cuts) : TrueFrameStart(cuts[i])

\* C18, as the code behaves: every frame emitted is the frameLen bytes from
\* the first magic pair after the previous cut, a frame start or not.
C18_EmittedAtFirstPair ==
  LET cuts == CutOffsets(stream, 0) IN
  /\ Len(cuts) = Len(emitted)
  /\ \A i \in 1..Len(cuts) :
       /\ emitted[i] = SubSeq(stream, cuts[i] + 1, cuts[i] + frameLen)
       /\ FindMagic(Slice(stream, IF i = 1 THEN 0 ELSE cuts[i - 1] + frameLen))
            = cuts[i] - (IF i = 1 THEN 0 ELSE cuts[i - 1] + frameLen)

\* the pair EF BE arrived before the first frame, and a frame was emitted
\* from it: the pair and the head of the first frame
C18_Witness ==
  /\ garbage = <<magicLo, magicHi>>
  /\ Len(frames) >= 1
  /\ Len(emitted) >= 1
  /\ emitted[1] = garbage \o SubSeq(frames[1], 1, frameLen - 2)

----------------------------------------------------------------------------
(* SpecPack: packMatrixToPayload on its own, and decodeFrameU16 on what it  *)
(* wrote, with the same grid                                                 *)

\* a grid whose nodes all hold different values, the first at or below the
\* minimum, the last ones above the maximum when the grid is large enough
PackGrid(k) == [n \in Nodes |-> FromInt(1000 * (n[1] * numCols + n[2]) + k)]
PackOffsets == {-2, -1, 0, 7, 999, 1000}

\* frame numbers around the byte boundaries, and the magic in either order
IdVals == {0, 1, 255, 256, 257, 32767, 32768, 48879, 61374, 65280, 65534, 65535}

\* every low byte under two high bytes, and every high byte
IdSweep == (0..511) \cup {256 * h + 171 : h \in 0..255}

PackInputs ==
  {[nr |-> PackGrid(k), id |-> i] : k \in PackOffsets, i \in IdVals}
  \cup {[nr |-> PackGrid(0), id |-> i] : i \in IdSweep}

\* the indexes of payload[] that packMatrixToPayload assigns on a grid of
\* rows by cols
PackWrites(rows, cols) ==
  {0, 1, 2, 3} \cup
  {kHeaderBytes + 2 * idx + b : idx \in 0..(rows * cols - 1), b \in {0, 1}}

PackInit ==
  /\ callArgs \in PackInputs
  /\ callResult = <<>>
  /\ called = FALSE
  /\ FwSetup
  /\ RxIdle
  /\ LinkIdle

\* packMatrixToPayload(MIN_RESISTANCE, MAX_RESISTANCE, id), then the host's
\* decodeFrameU16 on the bytes
PackCall ==
  /\ ~called
  /\ called' = TRUE
  /\ LET bytes == packMatrixToPayload(callArgs.nr, MIN_RESISTANCE, MAX_RESISTANCE,
                                      callArgs.id)
     IN callResult' =
          [bytes |-> bytes,
           decoded |-> decodeFrameU16([kind |-> "Uint8Array", bytes |-> bytes],
                                      BLE_MIN_V, BLE_MAX_V, numRows, numCols)]
  /\ UNCHANGED callArgs
  /\ UNCHANGED rxVars
  /\ UNCHANGED linkVars
  /\ UNCHANGED fwVars

SpecPack == PackInit /\ [][PackCall]_vars

----------------------------------------------------------------------------
(* Claims about the frame layout *)

\* the sample the firmware encodes for node (r, c): the value clamped to
\* MIN_RESISTANCE..MAX_RESISTANCE, quantized
EncodedSample(nr, r, c) ==
  LET x == nr[<<r, c>>]
      x1 == IF FLt(MAX_RESISTANCE, x) THEN MAX_RESISTANCE ELSE x
      x2 == IF FLt(x1, MIN_RESISTANCE) THEN MIN_RESISTANCE ELSE x1
  IN quantize_u16(x2, MIN_RESISTANCE, MAX_RESISTANCE)

\* magic, frame_id and every sample little-endian at offset 4 + 2*(r*C + c);
\* decodeFrameU16 with the same grid gives back frame_id and, at
\* matrix[r][c], the value derived from node (r, c)'s sample
LayoutRoundTrip ==
  called =>
    LET bytes == callResult.bytes
        dec == callResult.decoded
    IN /\ Len(bytes) = 4 + 2 * numRows * numCols
       /\ Len(bytes) = kPayloadBytes
       /\ PackWrites(numRows, numCols) = 0..(kPayloadBytes - 1)
       /\ PackWrites(FW_numRows, FW_numCols) = 0..(FW_kPayloadBytes - 1)
       /\ bytes[1] = 239 /\ bytes[2] = 190
       /\ bytes[3] = callArgs.id % 256
       /\ bytes[4] = callArgs.id \div 256
       /\ \A r \in 0..(numRows - 1) : \A c \in 0..(numCols - 1) :
            LET q == EncodedSample(callArgs.nr, r, c)
                at == 4 + 2 * (r * numCols + c)
            IN /\ bytes[at + 1] = q % 256
               /\ bytes[at + 2] = q \div 256
               /\ dec.matrix[r][c] =
                    rescaleCell(dequantizeU16(q, BLE_MIN_V, BLE_MAX_V))
       /\ dec.error = "none"
       /\ dec.frameId = callArgs.id

\* C19 as stated: the layout and the round trip, the reference frame being
\* 4 + 2*R*C = 200 bytes long.
C19_LayoutWith200Bytes ==
  /\ LayoutRoundTrip
  /\ called => FW_kPayloadBytes = 200

\* C19 amended: the layout and the round trip, the reference frame (12 by 8)
\* being 4 + 2*R*C = 196 bytes long.
C19_LayoutWith196Bytes ==
  /\ LayoutRoundTrip
  /\ called => FW_kPayloadBytes = 196

\* frame number 0xBEEF packed and decoded, the nodes' values all different
\* on the display
C19_Witness ==
  /\ called
  /\ callArgs.id = kMagic
  /\ callArgs.nr = PackGrid(999)
  /\ callResult.decoded.error = "none"
  /\ callResult.decoded.frameId = kMagic
  /\ callResult.decoded.matrix[0][1] # callResult.decoded.matrix[1][0]
  /\ callResult.decoded.matrix[0][2] # callResult.decoded.matrix[1][0]

----------------------------------------------------------------------------
(* SpecScan: scanMatrix from the ADC codes *)

ADC_MAX == 4095

\* const float V_SUPPLY = 3.3 and R_REF = 330.0; the literal 0.05f
V_SUPPLY == <<13841203, -22>>
R_REF == FromInt(330)
GuardVolts == <<13421773, -28>>

\* float v = (adc / (float)ADC_MAX) * V_SUPPLY
NodeVoltage(adc) == FMul(FDiv(FromInt(adc), FromInt(ADC_MAX)), V_SUPPLY)

ReadResistanceMinusOne(adc) ==
  LET v == NodeVoltage(adc) IN
  IF FLt(GuardVolts, v) /\ FLt(v, FSub(V_SUPPLY, GuardVolts))
  THEN FMul(R_REF, FSub(FDiv(V_SUPPLY, v), FOne))
  ELSE FMinusOne

\* the body of the inner loop: what nodeResistance[r][c] is assigned for
\* the code analogRead returned
ReadResistance(adc) ==
  LET v == NodeVoltage(adc) IN
  IF FLt(GuardVolts, v) /\ FLt(v, FSub(V_SUPPLY, GuardVolts))
  THEN FMul(R_REF, FSub(FDiv(V_SUPPLY, v), FOne))
  ELSE MAX_RESISTANCE

\* codes read on the two probed nodes (one populated, one omitted); every
\* other node reads mid-scale
AdcGrid(a, b) ==
  [n \in Nodes |-> IF n = Probe THEN a ELSE IF n = ProbeOmitted THEN b ELSE 2048]

\* after setup(), before the first scan
ScanInit ==
  /\ callArgs \in {AdcGrid(a, b) : a \in 0..ADC_MAX, b \in {0, 2048, ADC_MAX}}
  /\ callResult = <<>>
  /\ called = FALSE
  /\ FwSetup
  /\ RxIdle
  /\ LinkIdle

\* one call of scanMatrix with analogRead returning callArgs[r, c]
ScanCall ==
  /\ ~called
  /\ called' = TRUE
  /\ nodeResistance' = scanMatrix([n \in Nodes |-> ReadResistance(callArgs[n])])
  /\ UNCHANGED <<callArgs, callResult>>
  /\ UNCHANGED <<restingSum, restingCount, restingState, nodeMultiplier, frameCount,
                 restingFrozen, frame_id, payload, written, rawScan, cycles,
                 framesSent, alwaysReady, frozenAtStart, fedVals, prevId, lastId,
                 transport>>
  /\ UNCHANGED rxVars
  /\ UNCHANGED linkVars

SpecScan == ScanInit /\ [][ScanCall]_vars

----------------------------------------------------------------------------
(* Claims about the scan *)

\* the measured voltage adc * 3.3 / 4095 lies in the open interval
\* (0.05, 3.3 - 0.05), in exact arithmetic
InGuardBand(adc) == 660 * adc > 40950 /\ 132 * adc < 532350

----------------------------------------------------------------------------
(* Claims about the warm-up *)

\* the reading of node n on the cycle just run is positive and strictly
\* below MAX_RESISTANCE
ValidReading(x) == FLt(FZero, x) /\ FLt(x, MAX_RESISTANCE)

\* C21: on a warm-up cycle a populated node's reading is added to its sum
\* and its count goes up by one exactly when the reading is positive and
\* strictly below MAX_RESISTANCE; omitted nodes never accumulate; frameCount
\* goes up by one whatever was read and whatever the transport answers; a
\* count never exceeds frameCount; at the freeze restingState is sum / count
\* for every node with a count above zero.
C21_WarmupAccumulation ==
  /\ [][~restingFrozen =>
          /\ frameCount' = frameCount + 1
          /\ \A n \in Nodes :
               IF ~isOmittedNode(n[1], n[2]) /\ ValidReading(rawScan'[n])
               THEN /\ restingSum'[n] = FAdd(restingSum[n], rawScan'[n])
                    /\ restingCount'[n] = restingCount[n] + 1
               ELSE /\ restingSum'[n] = restingSum[n]
                    /\ restingCount'[n] = restingCount[n]
          /\ restingFrozen' =>
               \A n \in Nodes :
                 restingCount'[n] > 0 =>
                   restingState'[n] = FDiv(restingSum'[n], FromInt(restingCount'[n]))]_vars
  /\ [](\A n \in Nodes :
          /\ restingCount[n] <= frameCount
          /\ isOmittedNode(n[1], n[2]) =>
               restingSum[n] = FZero /\ restingCount[n] = 0)

\* the freeze came after one over-range reading of the probe and valid
\* readings on the other cycles, with the transport not always ready
C21_Witness ==
  /\ restingFrozen
  /\ ~frozenAtStart
  /\ restingCount[Probe] = kRestingHistorySize - 1
  /\ Raw21120 \in fedVals[Probe]
  /\ ~alwaysReady
  /\ restingState[Probe] = FDiv(restingSum[Probe], FromInt(restingCount[Probe]))

\* C22: a populated node that saw no valid sample in the warm-up window
\* freezes with restingState equal to its reading of the freezing cycle
\* (over-range readings taken as MAX_RESISTANCE) and nodeMultiplier =
\* MAX_RESISTANCE / restingState; so it freezes with restingState =
\* MAX_RESISTANCE and nodeMultiplier = 1.0, and keeps them.
C22_NoValidSampleFallback ==
  /\ [][(~restingFrozen /\ restingFrozen') =>
          \A n \in LiveNodes :
            restingCount'[n] = 0 =>
              /\ restingState'[n] = ClipRaw(rawScan'[n])
              /\ nodeMultiplier'[n] = FDiv(MAX_RESISTANCE, restingState'[n])]_vars
  /\ [](restingFrozen =>
          \A n \in LiveNodes :
            restingCount[n] = 0 =>
              restingState[n] = MAX_RESISTANCE /\ nodeMultiplier[n] = FOne)

\* the probe read open, then over range on the freezing cycle, and froze
\* without a valid sample
C22_Witness ==
  /\ restingFrozen
  /\ ~frozenAtStart
  /\ restingCount[Probe] = 0
  /\ rawScan[Probe] = Raw21120
  /\ MAX_RESISTANCE \in fedVals[Probe]
  /\ restingState[Probe] = MAX_RESISTANCE
  /\ nodeMultiplier[Probe] = FOne

----------------------------------------------------------------------------
(* Claims about the frozen transform *)

\* a frozen cycle has just run
FrozenCycleRan == restingFrozen /\ frozenAtStart

\* the smaller of two floats
FMin(a, b) == IF FLt(b, a) THEN b ELSE a

\* the reading with values <= 0 replaced by MAX_RESISTANCE, capped
Normalized(x) == FMin(IF FLe(x, FZero) THEN MAX_RESISTANCE ELSE x, MAX_RESISTANCE)

\* clip(x, MIN_RESISTANCE, MAX_RESISTANCE)
ClipOut(x) ==
  IF FLt(MAX_RESISTANCE, x) THEN MAX_RESISTANCE
  ELSE IF FLt(x, MIN_RESISTANCE) THEN MIN_RESISTANCE ELSE x

\* every frozen multiplier is >= 1.0 and every resting average is in
\* (0, MAX_RESISTANCE]; a populated node's output is the clipped product, lies
\* in (0, MAX_RESISTANCE] and is not below the normalized reading
FrozenTransformRange ==
  /\ restingFrozen =>
       \A n \in Nodes :
         /\ FLe(FOne, nodeMultiplier[n])
         /\ FLt(FZero, restingState[n])
         /\ FLe(restingState[n], MAX_RESISTANCE)
  /\ FrozenCycleRan =>
       \A n \in LiveNodes :
         /\ nodeResistance[n] = ClipOut(FMul(Normalized(rawScan[n]), nodeMultiplier[n]))
         /\ FLt(FZero, nodeResistance[n])
         /\ FLe(nodeResistance[n], MAX_RESISTANCE)
         /\ FLe(Normalized(rawScan[n]), nodeResistance[n])

\* C23 as stated: the range properties, and the output is MAX_RESISTANCE
\* whenever the reading is at or above the node's resting average.
C23_MaxAtOrAboveRest ==
  /\ FrozenTransformRange
  /\ FrozenCycleRan =>
       \A n \in LiveNodes :
         FLe(restingState[n], rawScan[n]) => nodeResistance[n] = MAX_RESISTANCE

\* C23 amended: the range properties, and the output is MAX_RESISTANCE up to
\* float32 rounding whenever the reading is at or above the node's resting
\* average.
C23_NearMaxAtOrAboveRest ==
  /\ FrozenTransformRange
  /\ FrozenCycleRan =>
       \A n \in LiveNodes :
         FLe(restingState[n], rawScan[n]) => Near(nodeResistance[n], MAX_RESISTANCE)

\* the probe froze on one valid sample, 365.85, and read the same value in
\* the frozen state: the product falls one unit in the last place short of
\* MAX_RESISTANCE
C23_Witness ==
  /\ FrozenCycleRan
  /\ restingCount[Probe] = 1
  /\ restingState[Probe] = Raw365
  /\ rawScan[Probe] = Raw365
  /\ nodeResistance[Probe] = <<12287999, -11>>
  /\ FLt(FOne, nodeMultiplier[Probe])

----------------------------------------------------------------------------
(* SpecRescale: one cell through decodePayloadU16 and rescaleMatrix, for    *)
(* every u16 sample                                                         *)

\* (minV, maxV) of the host's configuration and of the firmware
RescaleRanges == {<<BLE_MIN_V, BLE_MAX_V>>, <<-1, 6000>>}

RescaleInit ==
  /\ callArgs \in {[q |-> q, minV |-> g[1], maxV |-> g[2]] :
                     q \in 0..65535, g \in RescaleRanges}
  /\ callResult = <<>>
  /\ called = FALSE
  /\ FwSetup
  /\ RxIdle
  /\ LinkIdle

\* the cell rescaleMatrix returns for the sample
RescaleCall ==
  /\ ~called
  /\ called' = TRUE
  /\ callResult' = rescaleCell(dequantizeU16(callArgs.q, callArgs.minV, callArgs.maxV))
  /\ UNCHANGED callArgs
  /\ UNCHANGED rxVars
  /\ UNCHANGED linkVars
  /\ UNCHANGED fwVars

SpecRescale == RescaleInit /\ [][RescaleCall]_vars

----------------------------------------------------------------------------
(* Claims about the rescaled matrix *)

\* C24: a dequantized value <= 0 becomes the marker -1, a value > 0 becomes
\* clamp((value - 700) / 3000 * 100, 0, 100); so a cell is -1 or in [0, 100],
\* and on values > 0 the cell does not decrease when the sample grows.
\* (Values are times 65535, cells times HostUnit.)
C24_RescaleRange ==
  called =>
    LET value == dequantizeU16(callArgs.q, callArgs.minV, callArgs.maxV)
        scaled == value - 700 * 65535
        next == dequantizeU16(callArgs.q + 1, callArgs.minV, callArgs.maxV)
    IN /\ value <= 0 => callResult = -HostUnit
       /\ value > 0 /\ scaled <= 0 => callResult = 0
       /\ value > 0 /\ scaled >= 100 * HostUnit => callResult = 100 * HostUnit
       /\ value > 0 /\ scaled > 0 /\ scaled < 100 * HostUnit => callResult = scaled
       /\ callResult = -HostUnit \/ (callResult >= 0 /\ callResult <= 100 * HostUnit)
       /\ value > 0 /\ callArgs.q < 65535 => callResult <= rescaleCell(next)

\* a sample strictly inside the band: 2200 ohm shown as 50
C24_Witness ==
  /\ called
  /\ callArgs.minV = BLE_MIN_V
  /\ callArgs.maxV = BLE_MAX_V
  /\ callResult > 49 * HostUnit
  /\ callResult < 51 * HostUnit

----------------------------------------------------------------------------
(* Claims about the reassembler's buffer *)

\* the buffer b that an assembler of frame length len retains after stream s
BufferBounded(len, b, s) ==
  /\ Len(b) < len
  /\ Len(b) >= 2 => b[1] = magicLo /\ b[2] = magicHi
  /\ FindMagic(b) = -1 => (b = <<>> \/ b = <<s[Len(s)]>>)

\* C25: after every addChunk the retained buffer is shorter than frameLen,
\* begins with the magic pair when it holds two bytes or more, and holds at
\* most the last byte received when it holds no magic pair; this for every
\* frame length from 2 up, the buffer being that of the whole stream fed at
\* once (C2); an empty chunk or one of an unsupported type returns no frame
\* and leaves the buffer as it was.
C25_BufferBound ==
  /\ BufferBounded(frameLen, rxBuffer, stream)
  /\ \A len \in 2..frameLen :
       BufferBounded(len, MagicAddChunkFor(len, <<>>, stream).buffer, stream)
  /\ MagicAddChunk(rxBuffer, <<>>) = [buffer |-> rxBuffer, out |-> <<>>]
  /\ MagicAddChunk(rxBuffer, toUint8Array([kind |-> "DataView", bytes |-> <<magicLo, magicHi>>]))
       = [buffer |-> rxBuffer, out |-> <<>>]

\* junk, a frame emitted, and the magic pair of the next frame held
C25_Witness ==
  /\ Len(emitted) = 1
  /\ FindMagic(stream) > 0
  /\ Len(rxBuffer) = 2
  /\ rxBuffer[1] = magicLo
  /\ rxBuffer[2] = magicHi

----------------------------------------------------------------------------
(* SpecSend: sendChunked run one loop iteration at a time                   *)

MaxSendLen == 3

\* data of length len whose bytes are all different (up to 256)
SendData(len) == [i \in 1..len |-> i % 256]

\* short data with the small chunk sizes, and data longer than the chunk
\* buffer with the sizes around kMaxChunkSize
SendInputs ==
  {[data |-> SendData(len), len |-> len, chunkSize |-> cs, addSequenceHeader |-> h] :
     len \in 0..MaxSendLen, cs \in -1..(MaxSendLen + 2), h \in BOOLEAN}
  \cup
  {[data |-> SendData(kMaxChunkSize + 6), len |-> kMaxChunkSize + 6,
    chunkSize |-> cs, addSequenceHeader |-> h] :
     cs \in {kMaxChunkSize - 1, kMaxChunkSize, kMaxChunkSize + 1, 300}, h \in BOOLEAN}

\* the call is made: at the first statement, nothing written
SendInit ==
  /\ callArgs \in SendInputs
  /\ callResult = [pc |-> "entry", chunkSize |-> callArgs.chunkSize, off |-> 0,
                   seq |-> 0, sent |-> <<>>, lastWrite |-> <<>>, writes |-> 0]
  /\ called = FALSE
  /\ FwSetup
  /\ RxIdle
  /\ LinkIdle

\* the two statements before the loop
SendEnter ==
  /\ callResult.pc = "entry"
  /\ callResult' =
       IF callArgs.chunkSize <= 0 THEN [callResult EXCEPT !.pc = "done"]
       ELSE [callResult EXCEPT
               !.pc = "loop",
               !.chunkSize = IF callArgs.chunkSize > kMaxChunkSize
                             THEN kMaxChunkSize ELSE callArgs.chunkSize]
  /\ called' = (callArgs.chunkSize <= 0)

\* the loop test and, when it holds, one pass through the body; `writes`
\* counts the calls of bleuart.write up to MaxSendLen + 2
SendIterate ==
  /\ callResult.pc = "loop"
  /\ LET st == callResult
         payloadSpace == IF callArgs.addSequenceHeader
                         THEN st.chunkSize - 2 ELSE st.chunkSize
         n == IF callArgs.len - st.off > payloadSpace
              THEN payloadSpace ELSE callArgs.len - st.off
         body == Slice2(callArgs.data, st.off, st.off + n)
     IN IF ~(st.off < callArgs.len) THEN
          /\ callResult' = [st EXCEPT !.pc = "done"]
          /\ called' = TRUE
        ELSE IF callArgs.addSequenceHeader /\ st.chunkSize < 2 THEN
          /\ callResult' = [st EXCEPT !.pc = "done"]
          /\ called' = TRUE
        ELSE
          /\ callResult' =
               [st EXCEPT
                  !.off = st.off + n,
                  !.seq = IF callArgs.addSequenceHeader
                          THEN (st.seq + 1) % 65536 ELSE st.seq,
                  !.sent = st.sent \o body,
                  !.lastWrite = IF callArgs.addSequenceHeader
                                THEN <<st.seq % 256, st.seq \div 256>> \o body
                                ELSE body,
                  !.writes = Sat(st.writes, MaxSendLen + 2)]
          /\ called' = FALSE

SendNext ==
  /\ (SendEnter \/ SendIterate)
  /\ UNCHANGED callArgs
  /\ UNCHANGED rxVars
  /\ UNCHANGED linkVars
  /\ UNCHANGED fwVars

\* once called, the function keeps running
SpecSend == SendInit /\ [][SendNext]_vars /\ WF_vars(SendNext)

----------------------------------------------------------------------------
(* Claims about sendChunked's loop *)

SendDone == callResult.pc = "done"

\* with the header, every write starts with the sequence number, counted
\* from 0 in steps of one, and carries at most chunkSize - 2 data bytes; no
\* write is longer than the chunk buffer
SendWritesWellFormed ==
  /\ [][(callResult.pc = "loop" /\ callResult'.pc = "loop") =>
          /\ Len(callResult'.lastWrite) <= kMaxChunkSize
          /\ callArgs.addSequenceHeader =>
               /\ callResult'.lastWrite[1] = callResult.seq % 256
               /\ callResult'.lastWrite[2] = callResult.seq \div 256
               /\ callResult'.seq = (callResult.seq + 1) % 65536
               /\ Len(callResult'.lastWrite) - 2 <= callArgs.chunkSize - 2
               /\ callResult.writes = 0 => callResult.seq = 0]_vars

\* the sizes with which sendChunked can send: positive, and at least 3 with
\* the header; or nothing to send
SendUsable ==
  \/ callArgs.len = 0
  \/ /\ callArgs.chunkSize >= 1
     /\ callArgs.addSequenceHeader => callArgs.chunkSize >= 3

\* C27 as stated: for every len >= 0 and every chunkSize, with and without
\* the header, sendChunked returns, having written each data byte exactly
\* once in order, in well-formed writes.
C27_AlwaysTerminates ==
  /\ <>SendDone
  /\ [](SendDone => callResult.sent = callArgs.data)
  /\ SendWritesWellFormed

\* C27, as the code behaves: with a chunkSize of at least 1 (3 with the
\* header) it returns having written each byte once in order; with the
\* header and chunkSize 2 and something to send it never returns and writes
\* headers without data for ever; with other sizes it returns having
\* written nothing.
C27_TerminatesForUsableSizes ==
  /\ (SendUsable => <>SendDone)
  /\ [](SendDone /\ SendUsable => callResult.sent = callArgs.data)
  /\ [](~SendUsable => callResult.sent = <<>>)
  /\ ((callArgs.addSequenceHeader /\ callArgs.chunkSize = 2 /\ callArgs.len > 0)
        => [](~SendDone))
  /\ (~(callArgs.addSequenceHeader /\ callArgs.chunkSize = 2 /\ callArgs.len > 0)
        => <>SendDone)
  /\ SendWritesWellFormed

\* header and chunkSize 2: the sequence number has gone round once, every
\* write was a bare header, no data byte was written
C27_Witness ==
  /\ callResult.pc = "loop"
  /\ callArgs.addSequenceHeader
  /\ callArgs.chunkSize = 2
  /\ callArgs.len > 0
  /\ callResult.seq = 65535
  /\ Len(callResult.lastWrite) = 2
  /\ callResult.sent = <<>>
  /\ callResult.off = 0

----------------------------------------------------------------------------
(* SpecSeq: frames sent by sendChunked with the sequence header over a link *)
(* that may lose chunks, received by one ChunkAssembler(frameLen, true)     *)

\* chunkSize of the sender: the header and half a frame and more
SeqChunk == LinkChunk + 3

\* ChunkAssembler.addChunk on the object obj = [buffer, expectedSeq]: the
\* object afterwards and the payloads returned
ChunkAssemblerAddChunk(obj, chunk, assemblerLen, useSequence) ==
  IF Len(chunk) = 0 THEN [obj |-> obj, out |-> <<>>]
  ELSE IF useSequence /\ Len(chunk) < 2 THEN [obj |-> obj, out |-> <<>>]
  ELSE
    LET seq == chunk[1] + chunk[2] * 256
        buf0 == IF useSequence /\ seq # obj.expectedSeq THEN <<>> ELSE obj.buffer
        exp1 == IF useSequence THEN (seq + 1) % 65536 ELSE obj.expectedSeq
        remaining == IF useSequence THEN Slice(chunk, 2) ELSE chunk
        combined == buf0 \o remaining
        count == Len(combined) \div assemblerLen
    IN IF Len(remaining) = 0
       THEN [obj |-> [buffer |-> buf0, expectedSeq |-> exp1], out |-> <<>>]
       ELSE [obj |-> [buffer |-> Slice(combined, count * assemblerLen),
                      expectedSeq |-> exp1],
             out |-> [i \in 1..count |->
                        Slice2(combined, (i - 1) * assemblerLen, i * assemblerLen)]]

\* new ChunkAssembler(frameLen, true); nothing sent yet
SeqInit ==
  /\ callArgs = [payloadLen |-> frameLen, useSequence |-> TRUE]
  /\ callResult = [buffer |-> <<>>, expectedSeq |-> 0]
  /\ called = FALSE
  /\ RxIdle
  /\ LinkIdle
  /\ FwSetup

\* the next frame is written chunk by chunk, each with its sequence number
SeqSend(f) ==
  /\ air = <<>>
  /\ Len(frames) < MaxFrames
  /\ frames' = Append(frames, f)
  /\ txFrame' = f
  /\ air' = sendChunked(f, Len(f), SeqChunk, TRUE)
  /\ UNCHANGED <<faults, frameOK, cleanSince, lastDue, lastOK>>
  /\ UNCHANGED <<rxBuffer, emitted, stream, pending, garbage>>
  /\ UNCHANGED fwVars
  /\ UNCHANGED callVars

\* the oldest chunk in flight arrives
SeqDeliver ==
  /\ air # <<>>
  /\ LET r == ChunkAssemblerAddChunk(callResult, Head(air), callArgs.payloadLen,
                                     callArgs.useSequence)
     IN /\ callResult' = r.obj
        /\ emitted' = emitted \o r.out
  /\ air' = Tail(air)
  /\ UNCHANGED <<callArgs, called>>
  /\ UNCHANGED <<txFrame, faults, frameOK, cleanSince, lastDue, lastOK>>
  /\ UNCHANGED <<rxBuffer, stream, pending, garbage, frames>>
  /\ UNCHANGED fwVars

\* the oldest chunk in flight is lost
SeqDrop ==
  /\ air # <<>>
  /\ faults < MaxFaults
  /\ faults' = faults + 1
  /\ frameOK' = FALSE
  /\ air' = Tail(air)
  /\ UNCHANGED <<txFrame, cleanSince, lastDue, lastOK>>
  /\ UNCHANGED rxVars
  /\ UNCHANGED fwVars
  /\ UNCHANGED callVars

SeqNext ==
  \/ \E f \in FrameSet : SeqSend(f)
  \/ SeqDeliver
  \/ SeqDrop

SpecSeq == SeqInit /\ [][SeqNext]_vars

----------------------------------------------------------------------------
(* Claims about the sequence-header mode *)

\* C28: whatever chunks are lost, every payload the assembler emits is
\* byte-identical to one of the frames sent: a frame that lost a chunk is
\* not emitted, in whole or blended with bytes of another frame.
C28_OnlySentFramesEmitted ==
  \A i \in 1..Len(emitted) : \E j \in 1..Len(frames) : emitted[i] = frames[j]

\* C28, as the code behaves: without loss every frame is emitted as sent;
\* with loss every payload emitted has the frame's length, and is made of
\* chunks whose sequence numbers followed one another, of whatever frames.
C28_EmittedWithoutLoss ==
  /\ (faults = 0 /\ air = <<>>) => emitted = frames
  /\ \A i \in 1..Len(emitted) : Len(emitted[i]) = frameLen
  /\ Len(callResult.buffer) < frameLen

\* the second chunk of one frame and the first chunk of the next were lost,
\* and a payload came out that is neither frame
C28_Witness ==
  /\ faults = 2
  /\ Len(frames) = 2
  /\ Len(emitted) = 1
  /\ emitted[1] # frames[1]
  /\ emitted[1] # frames[2]
  /\ emitted[1] = SubSeq(frames[1], 1, SeqChunk - 2)
                    \o Slice(frames[2], SeqChunk - 2)

----------------------------------------------------------------------------
(* Claims about what a transmitted sample depends on *)

\* the grid a frozen cycle leaves, computed from that cycle's readings and
\* the frozen multipliers alone, the multiplier applied once
ScaledOnce ==
  [n \in Nodes |->
     IF isOmittedNode(n[1], n[2]) THEN FMinusOne
     ELSE ScaleNode(rawScan[n], nodeMultiplier[n])]

\* C29: on every frozen cycle the grid is the cycle's scan with the
\* multiplier applied once, whatever the grid held before (a scaled value of
\* the cycle before, or a warm-up reading); the warm-up sums take the scan
\* itself; every sample written encodes that grid.
C29_MultiplierAppliedOnce ==
  /\ [][restingFrozen =>
          \A n \in Nodes :
            nodeResistance'[n] =
              IF isOmittedNode(n[1], n[2]) THEN FMinusOne
              ELSE ScaleNode(rawScan'[n], nodeMultiplier[n])]_vars
  /\ [][~restingFrozen => nodeResistance' = scanMatrix(rawScan')]_vars
  /\ [](FrameWritten =>
          \A n \in Nodes :
            SampleAt(WrittenBytes, n[1], n[2]) = EncodedSample(ScaledOnce, n[1], n[2]))

\* the second frame in a row: 500 ohm on a node that rests at 1000 is sent
\* as 3000, not 6000
C29_Witness ==
  /\ FrameWritten
  /\ framesSent = 2
  /\ nodeMultiplier[Probe] = FromInt(6)
  /\ rawScan[Probe] = Raw500
  /\ nodeResistance[Probe] = FromInt(3000)
  /\ SampleAt(WrittenBytes, Probe[1], Probe[2])
       = quantize_u16(FromInt(3000), MIN_RESISTANCE, MAX_RESISTANCE)

----------------------------------------------------------------------------
(* Claims about what the host shows for a populated node *)

\* the cell the host shows for sample q when it dequantizes with the
\* firmware's own (MIN_RESISTANCE, MAX_RESISTANCE)
CellSameRange(q) == rescaleCell(dequantizeU16(q, -1, 6000))

\* ADC codes at the edges of the guard band and in between
EdgeCodes == {63, 64, 214, 2048, 4031, 4032}

\* C30: the sample written for a populated node in the frozen state,
\* dequantized with the firmware's (min, max) and rescaled, is a number in
\* [0, 100], never the marker -1; also for the readings at the edges of the
\* band under the node's frozen multiplier.
C30_PresentNeverMissing ==
  /\ FrameWritten =>
       \A n \in LiveNodes :
         LET cell == CellSameRange(SampleAt(WrittenBytes, n[1], n[2])) IN
         /\ cell >= 0
         /\ cell <= 100 * HostUnit
  /\ restingFrozen =>
       \A adc \in EdgeCodes :
         LET x == ScaleNode(ReadResistance(adc), nodeMultiplier[Probe])
             cell == CellSameRange(quantize_u16(x, MIN_RESISTANCE, MAX_RESISTANCE))
         IN cell >= 0 /\ cell <= 100 * HostUnit

\* a pressed populated node shown strictly between 0 and 100 while the
\* omitted node of the same frame shows the marker
C30_Witness ==
  /\ FrameWritten
  /\ rawScan[Probe] = Raw500
  /\ CellSameRange(SampleAt(WrittenBytes, Probe[1], Probe[2])) > 0
  /\ CellSameRange(SampleAt(WrittenBytes, Probe[1], Probe[2])) < 100 * HostUnit
  /\ CellSameRange(SampleAt(WrittenBytes, ProbeOmitted[1], ProbeOmitted[2])) = -HostUnit

====
